---- MODULE Spec2Model ----
(***************************************************************************)
(* Hybrid end-to-end encryption core of the chat client:                   *)
(*   - the server-side session cipher service                              *)
(*       supabase/functions/encryption/index.ts                            *)
(*   - the send orchestrator (useMessageSending / useRealTimeMessages)     *)
(*   - the receive orchestrator (useMessageDecryption)                     *)
(* Asynchronous handlers are split at their awaits; everything between     *)
(* two awaits is one atomic step of the single-threaded event loop.        *)
(***************************************************************************)
EXTENDS Integers, Sequences, FiniteSets, TLC

\* ------------------------------------------------------------------ bounds
MaxRequests == 2      \* direct requests to the cipher service (SpecServer)
NumKeys == 2          \* distinct values crypto.getRandomValues can return
MaxSends == 1         \* sendMessage calls of the client
MaxDecrypts == 1      \* message decryptions of the client
MaxUnlocks == 2       \* unlockKeys calls
MaxKeyChecks == 1     \* hasExistingKeys calls in flight
MaxTasks == 2         \* fetches, batch decryptions and realtime handlers of a run
MaxCalls == 2         \* decryptSingleMessage calls of the Promise.all batches
MaxBatch == 4         \* messages of one Promise.all batch (SpecAll)
MaxRows == 3          \* rows of the messages table
MaxKeyCalls == 2      \* key management calls of a run

\* ------------------------------------------------------- program constants
KeyBytes == 32        \* generateKey(): new Uint8Array(32); decrypt's length check
\* a retry limit one above the program's
maxRetriesRaised == 2 + 1
maxRetries == 2       \* sendMessage: const maxRetries = 2

Users == {"u1", "u2", "u3"}
NoUser == "anon"
ConvIds == {1, 2}
user == "u1"          \* the user signed in on the client

\* ------------------------------------------------------------ byte strings
HexDigits == <<"0","1","2","3","4","5","6","7","8","9","a","b","c","d","e","f">>

\* value of one hexadecimal digit, -1 for any other character
HexVal(c) ==
  IF \E i \in 1..16 : HexDigits[i] = c
    THEN (CHOOSE i \in 1..16 : HexDigits[i] = c) - 1
    ELSE -1

\* parseInt(two characters, 16) stored into a Uint8Array element:
\* parseInt reads the longest hexadecimal prefix; NaN is stored as 0.
parseInt(a, b) ==
  IF HexVal(a) < 0 THEN 0
  ELSE IF HexVal(b) < 0 THEN HexVal(a)
  ELSE 16 * HexVal(a) + HexVal(b)

\* hexToUint8Array: new Uint8Array(hex.length / 2) truncates the length, each
\* element is parseInt(hex.substr(i, 2), 16).  It has no throwing path.
hexToUint8Array(hex) ==
  [i \in 1..(Len(hex) \div 2) |-> parseInt(hex[2 * i - 1], hex[2 * i])]

\* uint8ArrayToHex: b.toString(16).padStart(2, "0") joined
uint8ArrayToHex(arr) ==
  [i \in 1..(2 * Len(arr)) |->
     IF i % 2 = 1 THEN HexDigits[(arr[(i + 1) \div 2] \div 16) + 1]
                  ELSE HexDigits[(arr[i \div 2] % 16) + 1]]

\* the base64 alphabet of btoa / atob
Base64Chars ==
  <<"A","B","C","D","E","F","G","H","I","J","K","L","M","N","O","P","Q","R","S","T","U","V",
    "W","X","Y","Z","a","b","c","d","e","f","g","h","i","j","k","l","m","n","o","p","q","r",
    "s","t","u","v","w","x","y","z","0","1","2","3","4","5","6","7","8","9","+","/">>

Base64Val(c) ==
  IF \E i \in 1..64 : Base64Chars[i] = c
    THEN (CHOOSE i \in 1..64 : Base64Chars[i] = c) - 1
    ELSE -1

Pow(b, e) == IF e = 0 THEN 1 ELSE IF e = 1 THEN b ELSE IF e = 2 THEN b * b ELSE b * b * b

\* btoa(String.fromCharCode(...bytes)): three bytes give four characters,
\* the last group is padded with "="
btoa(bytes) ==
  LET n == Len(bytes)
      at(i) == IF i <= n THEN bytes[i] ELSE 0
      group(g) == 65536 * at(3 * g + 1) + 256 * at(3 * g + 2) + at(3 * g + 3) IN
  [j \in 1..(4 * ((n + 2) \div 3)) |->
     LET g == (j - 1) \div 4
         p == (j - 1) % 4 IN
     IF p >= 2 /\ 3 * g + p > n THEN "="
     ELSE Base64Chars[((group(g) \div Pow(64, 3 - p)) % 64) + 1]]

\* the characters of a base64 text before its padding
Unpadded(base64) ==
  LET n == Len(base64)
      pads == IF n % 4 = 0 /\ n >= 2 /\ base64[n] = "="
                THEN (IF base64[n - 1] = "=" THEN 2 ELSE 1) ELSE 0 IN
  SubSeq(base64, 1, n - pads)

\* atob throws InvalidCharacterError on a character outside the alphabet
\* and on a length that no byte string encodes
atobOk(base64) ==
  LET u == Unpadded(base64) IN
  /\ Len(u) % 4 # 1
  /\ \A i \in 1..Len(u) : Base64Val(u[i]) >= 0

\* base64ToUint8Array: the char codes of atob(base64)
base64ToUint8Array(base64) ==
  LET u == Unpadded(base64)
      at(i) == IF i <= Len(u) THEN Base64Val(u[i]) ELSE 0
      group(g) == 262144 * at(4 * g + 1) + 4096 * at(4 * g + 2) + 64 * at(4 * g + 3)
                  + at(4 * g + 4) IN
  [i \in 1..((Len(u) * 3) \div 4) |->
     (group((i - 1) \div 3) \div Pow(256, 2 - ((i - 1) % 3))) % 256]

\* generateKey(): 32 random bytes; the model draws from NumKeys values
generateKey == {[i \in 1..KeyBytes |-> 160 + k] : k \in 1..NumKeys}

\* the placeholder every conversation creator of the client writes
temp_key == <<"t","e","m","p","_","k","e","y">>

\* crypto.subtle.importKey("raw", key, {name: "AES-GCM"}): only 128, 192 and
\* 256 bit keys import, any other length throws
importKeyOk(key) == Len(key) \in {16, 24, 32}

\* ------------------------------------------------------------- ciphertexts
\* A stored payload: its text encoding, the path that made it, the AES key
\* (server path) or the user whose public key wraps the AES key (hybrid
\* path), and the plaintext it protects.
NoCipher == [enc |-> "none", mode |-> "none", key |-> <<>>, to |-> "", pt |-> ""]
Garbage == [enc |-> "hex", mode |-> "junk", key |-> <<>>, to |-> "", pt |-> ""]

\* encryptMessage of the service: AES-GCM under the session key, hex output
\* of ciphertext and IV
encryptMessage(message, key) ==
  [encrypted |-> [enc |-> "hex", mode |-> "server", key |-> key, to |-> "", pt |-> message],
   iv |-> "hex"]

\* decryptMessage of the service: hexToUint8Array(encryptedHex), then AES-GCM
\* decrypt; the tag verifies only for a ciphertext made under the same key
\* and IV.  TRUE when crypto.subtle.decrypt resolves.
decryptMessageOk(encrypted, iv, key) ==
  /\ importKeyOk(key)
  /\ encrypted.enc = "hex" /\ encrypted.mode = "server"
  /\ iv = "hex"
  /\ encrypted.key = key

VARIABLES
  conversations,     \* conversations.session_key_encrypted, per conversation id
  participants,      \* conversation_participants: conversation id -> users
  requests,          \* requests of the cipher service, in arrival order
  audit_logs,        \* rows of audit_logs
  profiles,          \* profiles.public_key per user ("" when not published)
  messages_table,    \* rows of the messages table, in insert order
  startedChats,      \* conversations created by startChat
  sends,             \* sendMessage calls of the client
  decrypts,          \* message decryptions of the client
  messages,          \* useRealTimeMessages: the displayed message list
  mountedRef,        \* mountedRef.current
  sessionPrivateKey, \* AuthContext: the unlocked private key, "null" when locked
  authUser,          \* AuthContext: user, "null" when signed out
  hasE2EEKeys,       \* AuthContext: hasE2EEKeys
  isUnlockModalOpen, \* AuthContext: isUnlockModalOpen
  keyChecks,         \* AuthContext: hasExistingKeys calls of sign-in handlers in flight
  unlocks,           \* AuthContext: unlockKeys calls
  selectedConversationId, \* useRealTimeMessages: conversationId, 0 when none
  effectKey,         \* useRealTimeMessages: sessionPrivateKey its effects last ran with
  isDecryptingRef,   \* isDecryptingRef.current
  channelRef,        \* channelRef.current, 0 when null
  channels,          \* realtime channels subscribed in the supabase client
  events,            \* realtime INSERT notifications not yet delivered
  tasks,             \* fetches, batch decryptions and realtime handlers in flight
  loading,           \* useRealTimeMessages: loading
  errorState,        \* useRealTimeMessages: error, "null" when none
  keyDb,             \* IndexedDB of the device: the SecureTalkKeys database
  keyCalls,          \* key management calls: retrieve, generate, ensure, fetch
  chatMessages,      \* ChatMessages: newMessage and sending
  handleCalls        \* ChatMessages: handleSendMessage calls

serverVars == <<conversations, participants, requests, audit_logs>>
authVars == <<authUser, hasE2EEKeys, isUnlockModalOpen, keyChecks, unlocks>>
keyVars == <<keyDb, keyCalls>>
inputVars == <<chatMessages, handleCalls>>
viewVars == <<selectedConversationId, effectKey, isDecryptingRef, channelRef, channels,
              events, tasks, loading, errorState>>
clientVars == <<profiles, messages_table, startedChats, sends, decrypts, messages,
                mountedRef, sessionPrivateKey, authVars, viewVars, keyVars,
                inputVars>>
vars == <<conversations, participants, requests, audit_logs, profiles, messages_table,
          startedChats, sends, decrypts, messages, mountedRef, sessionPrivateKey,
          authUser, hasE2EEKeys, isUnlockModalOpen, keyChecks, unlocks,
          selectedConversationId, effectKey, isDecryptingRef, channelRef, channels,
          events, tasks, loading, errorState, keyDb, keyCalls, chatMessages,
          handleCalls>>

\* ------------------------------------------------------------------------
\* Server-side session cipher service (supabase/functions/encryption)
\* ------------------------------------------------------------------------
Unread == <<"?">>

\* a request record once serve() has authenticated the caller and parsed
\* the body
Request(caller, action, conversationId, message, encryptedMessage, iv, origin) ==
  [user |-> caller, action |-> action, conversationId |-> conversationId,
   message |-> message, encryptedMessage |-> encryptedMessage, iv |-> iv,
   origin |-> origin,
   pc |-> IF caller = NoUser THEN "responded"
          ELSE IF action = "encrypt" THEN "encrypt_select" ELSE "decrypt_check",
   conversation |-> Unread,     \* session_key_encrypted as selected
   sessionKey |-> <<>>,         \* the parsed or generated key
   participant |-> FALSE,       \* the participant check has passed
   fault |-> FALSE,             \* a query of the service failed
   status |-> IF caller = NoUser THEN 401 ELSE 0,
   result |-> NoCipher,         \* body of a successful encrypt
   plain |-> "",                \* body of a successful decrypt
   audit |-> "none",            \* outcome of the audit_logs insert
   error |-> IF caller = NoUser THEN "Authentication failed" ELSE ""]

Respond(r, status, error) ==
  [r EXCEPT !.pc = "responded", !.status = status, !.error = error]

\* ciphertexts a caller can hold: bodies of earlier successful encrypts
Returned == {requests[j].result : j \in {k \in 1..Len(requests) : requests[k].status = 200
                                             /\ requests[k].action = "encrypt"}}

\* serve(): a request arrives, the bearer token is resolved to a user
\* (401 without one) and the body is parsed.  The callers are a participant
\* of both conversations, a participant of conversation 2 only, and a
\* request without a valid token.
Callers == {"u1", "u3", NoUser}

serve ==
  /\ Len(requests) < MaxRequests
  /\ \E caller \in Callers, conversationId \in DOMAIN conversations :
       \/ requests' = Append(requests,
             Request(caller, "encrypt", conversationId, "hello", NoCipher, "none", "direct"))
       \/ \E c \in Returned \cup {Garbage} :
            requests' = Append(requests,
               Request(caller, "decrypt", conversationId, "", c, "hex", "direct"))
  /\ UNCHANGED <<conversations, participants, audit_logs, clientVars>>

\* action encrypt: select session_key_encrypted of the conversation
encrypt_select(i) ==
  /\ requests[i].pc = "encrypt_select"
  /\ requests' = [requests EXCEPT ![i].conversation = conversations[requests[i].conversationId],
                                  ![i].pc = "encrypt_key"]
  /\ UNCHANGED <<conversations, participants, audit_logs, clientVars>>

\* action encrypt: use the stored key (hex parse, which cannot throw, so the
\* base64 branch is never taken) or generate one and store it as hex
encrypt_key(i) ==
  LET r == requests[i] IN
  /\ r.pc = "encrypt_key"
  /\ IF r.conversation # <<>>
       THEN /\ requests' = [requests EXCEPT ![i].sessionKey = hexToUint8Array(r.conversation),
                                            ![i].pc = "encrypt_cipher"]
            /\ UNCHANGED conversations
       ELSE \E k \in generateKey :
            /\ requests' = [requests EXCEPT ![i].sessionKey = k, ![i].pc = "encrypt_cipher"]
            /\ conversations' = [conversations EXCEPT ![r.conversationId] = uint8ArrayToHex(k)]
  /\ UNCHANGED <<participants, audit_logs, clientVars>>

\* the audit_logs insert of the encrypt action: the client of the database
\* returns { error } and does not throw; the row is written when the insert
\* goes through
auditInsert(r, auditOk) ==
  IF auditOk
    THEN Append(audit_logs, [user_id |-> r.user, event_type |-> "message_sent",
                             conversation_id |-> r.conversationId])
    ELSE audit_logs

\* an encrypt action that answers 500 when its audit row was not written
encryptResponseAudited(r, auditOk) ==
  IF auditOk
    THEN [Respond(r, 200, "") EXCEPT
            !.result = encryptMessage(r.message, r.sessionKey).encrypted,
            !.audit = "written"]
    ELSE [Respond(r, 500, "Audit log failed") EXCEPT !.audit = "failed"]

\* the response of the encrypt action: the result of the insert is not read
encryptResponse(r, auditOk) ==
  [Respond(r, 200, "") EXCEPT
     !.result = encryptMessage(r.message, r.sessionKey).encrypted,
     !.audit = IF auditOk THEN "written" ELSE "failed"]

\* action encrypt: encryptMessage, audit row, response.  importKey throws on
\* a key of a wrong length, which the outer catch turns into a 500.
encrypt_cipher(i) ==
  LET r == requests[i] IN
  /\ r.pc = "encrypt_cipher"
  /\ IF importKeyOk(r.sessionKey)
       THEN \E auditOk \in BOOLEAN :
              /\ requests' = [requests EXCEPT ![i] = encryptResponse(r, auditOk)]
              /\ audit_logs' = auditInsert(r, auditOk)
       ELSE /\ requests' = [requests EXCEPT ![i] = Respond(r, 500, "Invalid key length")]
            /\ UNCHANGED audit_logs
  /\ UNCHANGED <<conversations, participants, clientVars>>

\* a decrypt action that goes on to the key without the participant check
decrypt_checkSkipped(i) ==
  /\ requests[i].pc = "decrypt_check"
  /\ requests' = [requests EXCEPT ![i].participant = TRUE, ![i].pc = "decrypt_select"]
  /\ UNCHANGED <<conversations, participants, audit_logs, clientVars>>

\* action decrypt: the participant check (.single() reports an error when no
\* row matches; the query itself may fail too)
decrypt_check(i) ==
  LET r == requests[i] IN
  /\ r.pc = "decrypt_check"
  /\ \E queryOk \in BOOLEAN :
       IF queryOk /\ r.user \in participants[r.conversationId]
         THEN requests' = [requests EXCEPT ![i].participant = TRUE,
                                           ![i].pc = "decrypt_select"]
         ELSE requests' = [requests EXCEPT ![i] =
                [Respond(r, 403, "Access check failed") EXCEPT !.fault = ~queryOk]]
  /\ UNCHANGED <<conversations, participants, audit_logs, clientVars>>

\* action decrypt: select session_key_encrypted; 404 when it is empty
decrypt_select(i) ==
  LET r == requests[i]
      key == conversations[r.conversationId] IN
  /\ r.pc = "decrypt_select"
  /\ IF key = <<>>
       THEN requests' = [requests EXCEPT ![i] =
                           [Respond(r, 404, "No session key found") EXCEPT !.conversation = key]]
       ELSE requests' = [requests EXCEPT ![i].conversation = key, ![i].pc = "decrypt_cipher"]
  /\ UNCHANGED <<conversations, participants, audit_logs, clientVars>>

\* action decrypt: parse the key, check its length, decryptMessage, respond
decrypt_cipher(i) ==
  LET r == requests[i]
      sessionKey == hexToUint8Array(r.conversation) IN
  /\ r.pc = "decrypt_cipher"
  /\ requests' = [requests EXCEPT ![i] =
       IF Len(sessionKey) # KeyBytes
         THEN [Respond(r, 500, "Invalid key length") EXCEPT !.sessionKey = sessionKey]
       ELSE IF decryptMessageOk(r.encryptedMessage, r.iv, sessionKey)
         THEN [Respond(r, 200, "") EXCEPT !.sessionKey = sessionKey,
                                          !.plain = r.encryptedMessage.pt]
       ELSE [Respond(r, 500, "Decryption failed") EXCEPT !.sessionKey = sessionKey]]
  /\ UNCHANGED <<conversations, participants, audit_logs, clientVars>>

\* ------------------------------------------------------------------------
\* Send orchestrator: sendMessage of useMessageSending (two revisions) and
\* of useRealTimeMessages
\* ------------------------------------------------------------------------
SendHooks == {"part_001", "part_000", "useRealTimeMessages"}
Contents == {"hello", " "}

\* content.trim()
trim(content) == IF content = " " THEN "" ELSE content

\* useE2ECrypto.encryptMessage(content, recipientPublicKey): hybrid payload,
\* RSA-wrapped AES key followed by the AES-GCM ciphertext, base64
encryptMessageClient(content, recipient) ==
  [encryptedMessage |-> [enc |-> "base64", mode |-> "hybrid", key |-> <<>>,
                         to |-> recipient, pt |-> content],
   iv |-> "base64"]

\* the outer catch of sendMessage: the message thrown to the caller for an
\* inner error, by error.message.includes(...)
outerCatch(hook, inner) ==
  CASE inner = "Both client-side and server-side encryption failed" /\ hook = "part_000"
         -> inner
    [] inner \in {"Server-side encryption failed", "encryptMessage failed"}
         -> "Failed to encrypt message"
    [] OTHER -> "Failed to send message"

Throw(s, inner) == [s EXCEPT !.pc = "thrown", !.error = outerCatch(s.hook, inner)]

\* the catch (keyError) of the client-side path: server-side fallback in
\* useMessageSending, none in useRealTimeMessages
catchKeyError(s, keyError) ==
  IF s.hook = "useRealTimeMessages"
    THEN [Throw(s, keyError) EXCEPT !.keyError = keyError]
    ELSE [s EXCEPT !.keyError = keyError, !.pc = "server_invoke"]

\* a catch around encryptMessageServerSide that swallows the error and goes
\* on to persist the message
catchServerErrorSwallowed(s) == [s EXCEPT !.serverError = TRUE, !.pc = "persist"]

\* the catch around encryptMessageServerSide
catchServerError(s) ==
  IF s.hook = "part_000"
    THEN [Throw(s, "Both client-side and server-side encryption failed")
            EXCEPT !.serverError = TRUE]
    ELSE [Throw(s, "Server-side encryption failed") EXCEPT !.serverError = TRUE]

\* ChatMessages.handleSendMessage: the sending flag is set while a call of
\* onSendMessage is pending, and a send is ignored while it is set
sending == \E k \in 1..Len(sends) : sends[k].pc \notin {"returned", "thrown"}

\* the call frame of sendMessage(content) after its guard on entry
SendCall(hook, conversationId, content) ==
  [hook |-> hook, conversationId |-> conversationId, content |-> content,
   pc |-> IF trim(content) = "" \/ ~mountedRef THEN "thrown" ELSE "client",
   keyError |-> "", encryptedMessage |-> NoCipher, iv |-> "none",
   encryptionMethod |-> "none", request |-> 0, retryCount |-> 0,
   inserts |-> 0, saveError |-> FALSE, messageData |-> 0,
   serverError |-> FALSE, fault |-> ~mountedRef,
   error |-> IF trim(content) = "" \/ ~mountedRef
               THEN "Missing required parameters for sending message" ELSE ""]

\* sendMessage(content): the guard on entry.  One revision of the hook is
\* deployed at a time, so every call of a run is of the same revision.
sendMessage ==
  /\ Len(sends) < MaxSends
  /\ ~sending
  /\ \E hook \in {h \in SendHooks : \A k \in 1..Len(sends) : sends[k].hook = h}, content \in Contents,
        conversationId \in {c \in DOMAIN conversations : user \in participants[c]} :
       sends' = Append(sends, SendCall(hook, conversationId, content))
  /\ UNCHANGED <<serverVars, profiles, messages_table, startedChats, decrypts, messages,
                 mountedRef, sessionPrivateKey,
                 authVars, viewVars,
                 keyVars, inputVars>>

\* the client-side path: getRecipientUserId, fetchPublicKey, encryptMessage
clientSide(n) ==
  LET s == sends[n]
      others == participants[s.conversationId] \ {user} IN
  /\ s.pc = "client"
  /\ \E queryOk \in BOOLEAN, fetchOk \in BOOLEAN, cryptoOk \in BOOLEAN :
       \/ /\ ~queryOk \/ others = {}
          /\ sends' = [sends EXCEPT ![n] = catchKeyError(s, "Failed to find recipient")]
       \/ \E recipientUserId \in others :
            /\ queryOk
            /\ sends' = [sends EXCEPT ![n] =
                 IF ~fetchOk \/ profiles[recipientUserId] = ""
                   THEN catchKeyError(s, "Public key retrieval failed")
                 ELSE IF ~cryptoOk
                   THEN catchKeyError(s, "encryptMessage failed")
                 ELSE [s EXCEPT
                         !.encryptedMessage =
                            encryptMessageClient(s.content, recipientUserId).encryptedMessage,
                         !.iv = encryptMessageClient(s.content, recipientUserId).iv,
                         !.encryptionMethod = "client-side",
                         !.pc = "persist"]]
  /\ UNCHANGED <<serverVars, profiles, messages_table, startedChats, decrypts, messages,
                 mountedRef, sessionPrivateKey,
                 authVars, viewVars,
                 keyVars, inputVars>>

\* encryptMessageServerSide: supabase.functions.invoke('encryption', encrypt)
encryptMessageServerSide(n) ==
  LET s == sends[n] IN
  /\ s.pc = "server_invoke"
  /\ \E netOk \in BOOLEAN :
       IF netOk
         THEN /\ requests' = Append(requests,
                   Request(user, "encrypt", s.conversationId, s.content, NoCipher, "none", "send"))
              /\ sends' = [sends EXCEPT ![n].pc = "server_wait",
                                        ![n].request = Len(requests) + 1]
         ELSE /\ sends' = [sends EXCEPT ![n] = [catchServerError(s) EXCEPT !.fault = TRUE]]
              /\ UNCHANGED requests
  /\ UNCHANGED <<conversations, participants, audit_logs, profiles, messages_table,
                 startedChats, decrypts, messages, mountedRef, sessionPrivateKey,
                 authVars, viewVars,
                 keyVars, inputVars>>

\* the invoke resolves: { data, error }
serverEncryptReturns(n) ==
  LET s == sends[n]
      r == requests[s.request] IN
  /\ s.pc = "server_wait"
  /\ r.pc = "responded"
  /\ sends' = [sends EXCEPT ![n] =
       IF r.status = 200
         THEN [s EXCEPT !.encryptedMessage = r.result, !.iv = "hex",
                        !.encryptionMethod = "server-side", !.pc = "persist"]
         ELSE catchServerError(s)]
  /\ UNCHANGED <<serverVars, profiles, messages_table, startedChats, decrypts, messages,
                 mountedRef, sessionPrivateKey,
                 authVars, viewVars,
                 keyVars, inputVars>>

\* head of the save loop: while (retryCount <= maxRetries && mountedRef.current)
\* issues the insert; when the condition is false the loop is left with
\* messageData undefined
insertMessage(n) ==
  LET s == sends[n] IN
  /\ s.pc = "persist"
  /\ IF s.retryCount <= maxRetries /\ mountedRef
       THEN \E stored \in BOOLEAN :
            /\ sends' = [sends EXCEPT ![n].pc = "insert_wait",
                                      ![n].inserts = s.inserts + 1,
                                      ![n].saveError = ~stored,
                                      ![n].fault = s.fault \/ ~stored,
                                      ![n].messageData =
                                         IF stored THEN Len(messages_table) + 1 ELSE 0]
            /\ messages_table' =
                 IF stored
                   THEN Append(messages_table,
                          [id |-> Len(messages_table) + 1,
                           conversation_id |-> s.conversationId, sender_id |-> user,
                           content_encrypted |-> s.encryptedMessage, iv |-> s.iv])
                   ELSE messages_table
       ELSE /\ sends' = [sends EXCEPT ![n] =
                 [Throw(s, "Message save failed or component unmounted")
                    EXCEPT !.fault = TRUE]]
            /\ UNCHANGED messages_table
  /\ UNCHANGED <<serverVars, profiles, startedChats, decrypts, messages, mountedRef,
                 sessionPrivateKey,
                 authVars, viewVars,
                 keyVars, inputVars>>

\* a message built before the insert, with a temporary id
newMessageOptimistic(s) == [id |-> 0, decrypted_content |-> s.content]

\* the message shown to the sender
newMessage(s) == [id |-> s.messageData, decrypted_content |-> s.content]

\* the insert resolves: break on success and finish, or count the retry
insertResolves(n) ==
  LET s == sends[n] IN
  /\ s.pc = "insert_wait"
  /\ IF ~s.saveError
       THEN IF ~mountedRef
              THEN /\ sends' = [sends EXCEPT ![n] =
                        [Throw(s, "Message save failed or component unmounted")
                           EXCEPT !.fault = TRUE]]
                   /\ UNCHANGED messages
              ELSE /\ sends' = [sends EXCEPT ![n].pc = "returned"]
                   /\ messages' =
                        IF s.hook = "useRealTimeMessages"
                           /\ ~\E k \in 1..Len(messages) : messages[k].id = s.messageData
                          THEN Append(messages, newMessage(s))
                          ELSE messages
       ELSE /\ sends' = [sends EXCEPT ![n] =
                 IF s.retryCount + 1 > maxRetries
                   THEN [Throw(s, "Failed to save message after multiple attempts")
                           EXCEPT !.retryCount = s.retryCount + 1]
                   ELSE [s EXCEPT !.retryCount = s.retryCount + 1, !.pc = "persist"]]
            /\ UNCHANGED messages
  /\ UNCHANGED <<serverVars, profiles, messages_table, startedChats, decrypts,
                 mountedRef, sessionPrivateKey,
                 authVars, viewVars,
                 keyVars, inputVars>>

\* effect cleanup / effect run of the hook that owns mountedRef
unmount ==
  /\ mountedRef
  /\ mountedRef' = FALSE
  /\ UNCHANGED <<serverVars, profiles, messages_table, startedChats, sends, decrypts,
                 messages, sessionPrivateKey,
                 authVars, viewVars,
                 keyVars, inputVars>>

mount ==
  /\ ~mountedRef
  /\ mountedRef' = TRUE
  /\ UNCHANGED <<serverVars, profiles, messages_table, startedChats, sends, decrypts,
                 messages, sessionPrivateKey,
                 authVars, viewVars,
                 keyVars, inputVars>>

\* useChatLogic.startChat(userId): an existing conversation with that user
\* is reused, otherwise one is created with the placeholder key and both
\* participants are added (that insert may fail)
startChat ==
  \E userId \in Users \ {user} :
    /\ ~\E c \in DOMAIN conversations : {user, userId} \subseteq participants[c]
    /\ \E id \in ConvIds \ DOMAIN conversations, participantOk \in BOOLEAN :
         /\ id = Cardinality(DOMAIN conversations) + 1
         /\ conversations' = conversations @@ (id :> temp_key)
         /\ participants' = participants @@
                              (id :> IF participantOk THEN {user, userId} ELSE {})
         /\ startedChats' = startedChats \cup {id}
    /\ UNCHANGED <<requests, audit_logs, profiles, messages_table, sends, decrypts,
                   messages, mountedRef, sessionPrivateKey,
                 authVars, viewVars,
                 keyVars, inputVars>>

\* ------------------------------------------------------------------------
\* Receive orchestrator: decryptClientMessage of useMessageDecryption (and
\* its copy in useRealTimeMessages), decryptSingleMessage of the revision
\* with the server-side fallback (part_005)
\* ------------------------------------------------------------------------
DecryptHooks == {"useMessageDecryption", "part_005"}

\* the placeholders; "[lock] " stands for the lock emoji of the source
Locked == "[lock] Messages locked - unlock to decrypt"
FailedClient == "[lock] Failed to decrypt message"
FailedServer == "Failed to decrypt message"
NotAuthenticated == "User not authenticated"

\* the local hybrid decryption: atob of payload and IV, the first 256 bytes
\* unwrapped with the session private key (RSA-OAEP), the rest decrypted
\* with AES-GCM.  TRUE when no step throws.
localDecryptOk(m, privateKey) ==
  /\ m.content_encrypted.enc = "base64"
  /\ m.iv = "base64"
  /\ m.content_encrypted.mode = "hybrid"
  /\ privateKey = "priv_" \o m.content_encrypted.to

Decryption(hook, m, pc, local, request, fault, content) ==
  [hook |-> hook, id |-> m.id, key |-> sessionPrivateKey, mounted |-> mountedRef,
   pc |-> pc, local |-> local, request |-> request, fault |-> fault,
   decrypted_content |-> content]

\* useMessageDecryption.decryptClientMessage(message)
decryptClientMessage ==
  /\ Len(decrypts) < MaxDecrypts
  /\ \A k \in 1..Len(decrypts) : decrypts[k].hook = "useMessageDecryption"
  /\ \E j \in 1..Len(messages_table) :
       LET m == messages_table[j] IN
       decrypts' = Append(decrypts,
         IF ~mountedRef
           THEN Decryption("useMessageDecryption", m, "done", "none", 0, FALSE, "")
         ELSE IF sessionPrivateKey = "null"
           THEN Decryption("useMessageDecryption", m, "done", "none", 0, FALSE, Locked)
         ELSE IF localDecryptOk(m, sessionPrivateKey)
           THEN Decryption("useMessageDecryption", m, "done", "ok", 0, FALSE,
                           m.content_encrypted.pt)
         ELSE Decryption("useMessageDecryption", m, "done", "threw", 0, FALSE, FailedClient))
  /\ UNCHANGED <<serverVars, profiles, messages_table, startedChats, sends, messages,
                 mountedRef, sessionPrivateKey,
                 authVars, viewVars,
                 keyVars, inputVars>>

\* a decryptSingleMessage whose catch of the server-side failure rethrows
rethrowDecryptError(d, fault) == [d EXCEPT !.pc = "thrown", !.fault = fault]

\* part_005 decryptSingleMessage: the catch (serverError) of both branches
catchDecryptError(d, fault) ==
  [d EXCEPT !.pc = "done", !.fault = fault, !.decrypted_content = FailedServer]

\* part_005 decryptSingleMessage(message) (the credential this revision
\* reads from useAuth is userPassword; sessionPrivateKey stands for it), up
\* to the invoke of the service's decrypt (decryptMessageServerSide): the
\* client-side attempt is made only with a password, the server-side call
\* also without one.  request is the index the invoke gets when it is made.
singleLocal(m) ==
  IF sessionPrivateKey = "null" THEN "none"
  ELSE IF localDecryptOk(m, sessionPrivateKey) THEN "ok" ELSE "threw"

singleInvokes(m, netOk) == mountedRef /\ singleLocal(m) # "ok" /\ netOk

singleCall(m, netOk, request) ==
  IF ~mountedRef
    THEN Decryption("part_005", m, "done", "none", 0, FALSE, NotAuthenticated)
  ELSE IF singleLocal(m) = "ok"
    THEN Decryption("part_005", m, "done", "ok", 0, FALSE, m.content_encrypted.pt)
  ELSE IF ~netOk
    THEN catchDecryptError(
           Decryption("part_005", m, "server_wait", singleLocal(m), 0, FALSE, ""), TRUE)
  ELSE Decryption("part_005", m, "server_wait", singleLocal(m), request, FALSE, "")

singleRequest(m) ==
  Request(user, "decrypt", m.conversation_id, "", m.content_encrypted, m.iv, "decrypt")

decryptSingleMessage ==
  /\ Len(decrypts) < MaxDecrypts
  /\ \A k \in 1..Len(decrypts) : decrypts[k].hook = "part_005"
  /\ \A k \in 1..Len(tasks) : tasks[k].hook = "part_005"
  /\ \E j \in 1..Len(messages_table), netOk \in BOOLEAN :
       LET m == messages_table[j] IN
       /\ decrypts' = Append(decrypts, singleCall(m, netOk, Len(requests) + 1))
       /\ requests' = IF singleInvokes(m, netOk)
                        THEN Append(requests, singleRequest(m)) ELSE requests
  /\ UNCHANGED <<conversations, participants, audit_logs, profiles, messages_table,
                 startedChats, sends, messages, mountedRef, sessionPrivateKey,
                 authVars, viewVars,
                 keyVars, inputVars>>

\* the invoke of the service's decrypt resolves
serverDecryptReturns(n) ==
  LET d == decrypts[n]
      r == requests[d.request] IN
  /\ d.pc = "server_wait"
  /\ r.pc = "responded"
  /\ decrypts' = [decrypts EXCEPT ![n] =
       IF r.status = 200
         THEN [d EXCEPT !.pc = "done", !.fault = r.fault, !.decrypted_content = r.plain]
         ELSE catchDecryptError(d, r.fault)]
  /\ UNCHANGED <<serverVars, profiles, messages_table, startedChats, sends, messages,
                 mountedRef, sessionPrivateKey,
                 authVars, viewVars,
                 keyVars, inputVars>>

\* ------------------------------------------------------------------------
\* processBatchDecryption: useMessageDecryption (chunks of batchSize, one
\* call at a time) and the part_005 revision (Promise.all over the messages)
\* ------------------------------------------------------------------------
batchSize == 3

Min(a, b) == IF a <= b THEN a ELSE b

\* a fetch, a batch decryption or a realtime handler in flight.  i is the
\* loop index, out the decryptedMessages so far, first the position before
\* the task's decryptSingleMessage calls; intact records that the call was
\* not skipped and found the view mounted at each of its checks.
Task(kind, hook, conv, key, data, pc) ==
  [kind |-> kind, hook |-> hook, conv |-> conv, key |-> key, data |-> data,
   i |-> 0, out |-> <<>>, pc |-> pc, retryCount |-> 0, returned |-> "",
   intact |-> TRUE, first |-> 0]

Shown(m, content) == [id |-> m.id, decrypted_content |-> content]

\* the messages as they came in (decrypted_content undefined)
Undecrypted(data) == [k \in 1..Len(data) |-> Shown(data[k], "")]

\* decryptClientMessage(msg) for a mounted view, with the key of its closure
clientContent(m, key) ==
  IF key = "null" THEN Locked
  ELSE IF localDecryptOk(m, key) THEN m.content_encrypted.pt
  ELSE FailedClient

\* messagesToDecrypt.slice(i, i + batchSize) and its settled results
chunk(t) == SubSeq(t.data, t.i + 1, Min(t.i + batchSize, Len(t.data)))

\* a chunk settled as a whole: one failure makes every message of the chunk
\* a processing error
decryptedChunkAllOrNothing(t) ==
  IF \E k \in 1..Len(chunk(t)) : clientContent(chunk(t)[k], t.key) = FailedClient
    THEN [k \in 1..Len(chunk(t)) |-> Shown(chunk(t)[k], "Processing error")]
    ELSE [k \in 1..Len(chunk(t)) |-> Shown(chunk(t)[k], clientContent(chunk(t)[k], t.key))]

decryptedChunk(t) ==
  [k \in 1..Len(chunk(t)) |-> Shown(chunk(t)[k], clientContent(chunk(t)[k], t.key))]

\* the results of a chunk are pushed: pause before the next chunk, or leave
\* the loop
afterChunk(t) ==
  LET u == [t EXCEPT !.out = t.out \o decryptedChunk(t), !.i = t.i + batchSize] IN
  IF u.i >= Len(u.data) THEN [u EXCEPT !.pc = "end"]
  ELSE IF mountedRef THEN [u EXCEPT !.pc = "delay"]
  ELSE [u EXCEPT !.pc = "end", !.intact = FALSE]

\* the head of the for loop, run up to the next await that yields to the
\* event loop: with a locked closure decryptClientMessage returns at once
loopHead(t) ==
  IF t.i >= Len(t.data) THEN [t EXCEPT !.pc = "end"]
  ELSE IF ~mountedRef THEN [t EXCEPT !.pc = "end", !.intact = FALSE]
  ELSE IF t.key # "null" THEN [t EXCEPT !.pc = "chunk"]
  ELSE afterChunk(t)

\* return decryptedMessages
returnList(t) == [t EXCEPT !.pc = "done", !.returned = "list"]

\* useMessageDecryption.processBatchDecryption(messagesToDecrypt)
processBatchDecryption ==
  /\ Len(tasks) < MaxTasks
  /\ \A k \in 1..Len(tasks) : tasks[k].hook = "useMessageDecryption"
  /\ decrypts = <<>>
  /\ \E a \in 1..Len(messages_table) + 1 :
     \E b \in (a - 1)..Len(messages_table) :
       LET t == Task("batch", "useMessageDecryption", 0, sessionPrivateKey,
                     SubSeq(messages_table, a, b), "head")
           u == loopHead(t) IN
       IF isDecryptingRef \/ Len(t.data) = 0 \/ ~mountedRef
         THEN /\ tasks' = Append(tasks,
                   returnList([t EXCEPT !.out = Undecrypted(t.data), !.intact = FALSE]))
              /\ UNCHANGED isDecryptingRef
         ELSE /\ tasks' = Append(tasks, IF u.pc = "end" THEN returnList(u) ELSE u)
              /\ isDecryptingRef' = (u.pc # "end")
  /\ UNCHANGED <<serverVars, profiles, messages_table, startedChats, sends, decrypts,
                 messages, mountedRef, sessionPrivateKey, authVars,
                 selectedConversationId, effectKey, channelRef, channels, events,
                 loading, errorState,
                 keyVars, inputVars>>

\* Promise.allSettled of a chunk resolves
batchChunkResolves(n) ==
  LET u == afterChunk(tasks[n]) IN
  /\ tasks[n].kind = "batch"
  /\ tasks[n].pc = "chunk"
  /\ tasks' = [tasks EXCEPT ![n] = IF u.pc = "end" THEN returnList(u) ELSE u]
  /\ isDecryptingRef' = (u.pc # "end")
  /\ UNCHANGED <<serverVars, profiles, messages_table, startedChats, sends, decrypts,
                 messages, mountedRef, sessionPrivateKey, authVars,
                 selectedConversationId, effectKey, channelRef, channels, events,
                 loading, errorState,
                 keyVars, inputVars>>

\* the 50 ms pause between two chunks ends
batchDelayResolves(n) ==
  LET u == loopHead(tasks[n]) IN
  /\ tasks[n].kind = "batch"
  /\ tasks[n].pc = "delay"
  /\ tasks' = [tasks EXCEPT ![n] = IF u.pc = "end" THEN returnList(u) ELSE u]
  /\ isDecryptingRef' = (u.pc # "end")
  /\ UNCHANGED <<serverVars, profiles, messages_table, startedChats, sends, decrypts,
                 messages, mountedRef, sessionPrivateKey, authVars,
                 selectedConversationId, effectKey, channelRef, channels, events,
                 loading, errorState,
                 keyVars, inputVars>>

\* part_005 processBatchDecryption(messages), up to the await of Promise.all:
\* decryptSingleMessage is called for every message.  A run makes at most
\* cap calls.
invokedBefore(data, netOk, k) ==
  Cardinality({j \in 1..(k - 1) : singleInvokes(data[j], netOk[j])})

invoking(data, netOk) ==
  SelectSeq([k \in 1..Len(data) |-> k], LAMBDA k : singleInvokes(data[k], netOk[k]))

processBatchDecryptionUpTo(cap) ==
  /\ Len(tasks) < MaxTasks
  /\ \A k \in 1..Len(tasks) : tasks[k].hook = "part_005" /\ tasks[k].pc = "done"
  /\ \A k \in 1..Len(decrypts) : decrypts[k].hook = "part_005"
  /\ \E a \in 1..Len(messages_table) + 1 :
     \E b \in (a - 1)..Min(Len(messages_table), a + cap - Len(decrypts) - 1) :
       LET data == SubSeq(messages_table, a, b)
           t == Task("batch", "part_005", 0, sessionPrivateKey, data, "all") IN
       IF ~mountedRef \/ Len(data) = 0
         THEN /\ tasks' = Append(tasks,
                   returnList([t EXCEPT !.out = Undecrypted(data), !.intact = FALSE]))
              /\ UNCHANGED <<decrypts, requests>>
         ELSE \E netOk \in [1..Len(data) -> BOOLEAN] :
              /\ tasks' = Append(tasks, [t EXCEPT !.first = Len(decrypts)])
              /\ decrypts' = decrypts \o
                   [k \in 1..Len(data) |->
                      singleCall(data[k], netOk[k],
                                 Len(requests) + invokedBefore(data, netOk, k) + 1)]
              /\ requests' = requests \o
                   [j \in 1..Len(invoking(data, netOk)) |->
                      singleRequest(data[invoking(data, netOk)[j]])]
  /\ UNCHANGED <<conversations, participants, audit_logs, profiles, messages_table,
                 startedChats, sends, messages, mountedRef, sessionPrivateKey,
                 authVars, selectedConversationId, effectKey, isDecryptingRef,
                 channelRef, channels, events, loading, errorState,
                 keyVars, inputVars>>

processBatchDecryptionAll == processBatchDecryptionUpTo(MaxCalls)

\* Promise.all resolves (or rejects, into the catch of the batch)
batchAllSettles(n) ==
  LET t == tasks[n]
      calls == [k \in 1..Len(t.data) |-> decrypts[t.first + k]] IN
  /\ t.kind = "batch"
  /\ t.pc = "all"
  /\ \A k \in 1..Len(calls) : calls[k].pc \in {"done", "thrown"}
  /\ tasks' = [tasks EXCEPT ![n] = returnList(
       IF \E k \in 1..Len(calls) : calls[k].pc = "thrown"
         THEN [t EXCEPT !.out = [k \in 1..Len(t.data) |->
                                   Shown(t.data[k], "Decryption failed")]]
       ELSE IF mountedRef
         THEN [t EXCEPT !.out = [k \in 1..Len(t.data) |->
                                   Shown(t.data[k], calls[k].decrypted_content)]]
       ELSE [t EXCEPT !.out = Undecrypted(t.data), !.intact = FALSE])]
  /\ UNCHANGED <<serverVars, profiles, messages_table, startedChats, sends, decrypts,
                 messages, mountedRef, sessionPrivateKey, authVars,
                 selectedConversationId, effectKey, isDecryptingRef, channelRef,
                 channels, events, loading, errorState,
                 keyVars, inputVars>>

\* ------------------------------------------------------------------------
\* AuthContext: the auth state listener and unlockKeys
\* ------------------------------------------------------------------------
Passwords == {"right", "wrong"}
Threw == "threw"

\* what retrieveStoredKeys(user.id) finds in IndexedDB: the private key (JWK)
\* wrapped with AES-GCM under the key derived from the user's password
storedKeys ==
  [encryptedPrivateKey |-> [wrappedWith |-> "right", jwk |-> "priv_" \o user],
   salt |-> "salt"]

\* an unwrapping that returns the key whatever the password
decryptPrivateKeyUnauthenticated(encryptedKey, salt, password) == encryptedKey.jwk

\* useE2ECrypto.decryptPrivateKey: AES-GCM decrypt under the derived key
\* throws unless the password is the wrapping one
decryptPrivateKey(encryptedKey, salt, password) ==
  IF password = encryptedKey.wrappedWith THEN encryptedKey.jwk ELSE Threw

Unlock(password, pc, result) ==
  [user |-> authUser, password |-> password, pc |-> pc, result |-> result]

\* unlockKeys(password), up to the await of retrieveStoredKeys
unlockKeys ==
  /\ Len(unlocks) < MaxUnlocks
  /\ \E password \in Passwords :
       unlocks' = Append(unlocks,
         IF authUser = "null" THEN Unlock(password, "done", "false")
                              ELSE Unlock(password, "retrieve", "pending"))
  /\ UNCHANGED <<serverVars, profiles, messages_table, startedChats, sends, decrypts,
                 messages, mountedRef, sessionPrivateKey, authUser, hasE2EEKeys,
                 isUnlockModalOpen, keyChecks, viewVars,
                 keyVars, inputVars>>

\* retrieveStoredKeys resolves: null (or a failure of IndexedDB) ends the call
unlockRetrieved(n) ==
  /\ unlocks[n].pc = "retrieve"
  /\ \E found \in BOOLEAN :
       unlocks' = [unlocks EXCEPT ![n].pc = IF found THEN "decrypt" ELSE "done",
                                  ![n].result = IF found THEN "pending" ELSE "false"]
  /\ UNCHANGED <<serverVars, profiles, messages_table, startedChats, sends, decrypts,
                 messages, mountedRef, sessionPrivateKey, authUser, hasE2EEKeys,
                 isUnlockModalOpen, keyChecks, viewVars,
                 keyVars, inputVars>>

\* decryptPrivateKey resolves: the key is installed and the modal closed, or
\* the catch returns false
unlockDecrypted(n) ==
  LET privateKey == decryptPrivateKey(storedKeys.encryptedPrivateKey, storedKeys.salt,
                                      unlocks[n].password) IN
  /\ unlocks[n].pc = "decrypt"
  /\ IF privateKey = Threw
       THEN /\ unlocks' = [unlocks EXCEPT ![n].pc = "done", ![n].result = "false"]
            /\ UNCHANGED <<sessionPrivateKey, isUnlockModalOpen>>
       ELSE /\ unlocks' = [unlocks EXCEPT ![n].pc = "done", ![n].result = "true"]
            /\ sessionPrivateKey' = privateKey
            /\ isUnlockModalOpen' = FALSE
  /\ UNCHANGED <<serverVars, profiles, messages_table, startedChats, sends, decrypts,
                 messages, mountedRef, authUser, hasE2EEKeys, keyChecks, viewVars,
                 keyVars, inputVars>>

\* onAuthStateChange, SIGNED_IN (and the initial session): up to the await of
\* hasExistingKeys
signedIn ==
  /\ keyChecks < MaxKeyChecks
  /\ authUser' = user
  /\ keyChecks' = keyChecks + 1
  /\ UNCHANGED <<serverVars, profiles, messages_table, startedChats, sends, decrypts,
                 messages, mountedRef, sessionPrivateKey, hasE2EEKeys,
                 isUnlockModalOpen, unlocks, viewVars,
                 keyVars, inputVars>>

\* hasExistingKeys resolves in the SIGNED_IN handler
hasKeysResolves ==
  /\ keyChecks > 0
  /\ keyChecks' = keyChecks - 1
  /\ \E hasKeys \in BOOLEAN :
       /\ hasE2EEKeys' = hasKeys
       /\ isUnlockModalOpen' = (hasKeys \/ isUnlockModalOpen)
  /\ UNCHANGED <<serverVars, profiles, messages_table, startedChats, sends, decrypts,
                 messages, mountedRef, sessionPrivateKey, authUser, unlocks, viewVars,
                 keyVars, inputVars>>

\* onAuthStateChange, SIGNED_OUT
signedOut ==
  /\ authUser # "null"
  /\ authUser' = "null"
  /\ hasE2EEKeys' = FALSE
  /\ sessionPrivateKey' = "null"
  /\ isUnlockModalOpen' = FALSE
  /\ UNCHANGED <<serverVars, profiles, messages_table, startedChats, sends, decrypts,
                 messages, mountedRef, keyChecks, unlocks, viewVars,
                 keyVars, inputVars>>

\* ------------------------------------------------------------------------
\* The message view: useRealTimeMessages (hook of src/hooks), its effects,
\* fetchMessages, processBatchDecryption and the realtime handler
\* ------------------------------------------------------------------------
fetchMaxRetries == 3

Remove(seq, n) == SubSeq(seq, 1, n - 1) \o SubSeq(seq, n + 1, Len(seq))

\* a removeChannel that leaves the channel subscribed
removeChannelKept(chs, ref) == chs

\* supabase.removeChannel(channelRef.current)
removeChannel(chs, ref) == {ch \in chs : ch.n # ref}

\* supabase.channel(channelName): a channel not yet in the client
newChannel(chs) == CHOOSE n \in 1..(Cardinality(chs) + 1) : \A ch \in chs : ch.n # n

\* setMessages(prev => prev.find(msg => msg.id === m.id) ? prev : [...prev, m])
appendUnlessShown(prev, m) ==
  IF \E k \in 1..Len(prev) : prev[k].id = m.id THEN prev ELSE Append(prev, m)

\* .eq('conversation_id', conversationId).order('created_at', ascending)
selectMessages(c) == SelectSeq(messages_table, LAMBDA m : m.conversation_id = c)

\* messages.map(msg => ({ ...msg, decrypted_content: undefined }))
resetMessages == [k \in 1..Len(messages) |-> messages_table[messages[k].id]]

\* a commit of the hook's render with conversationId = c: the cleanup of
\* the previous subscription effect, the re-decrypt effect when the key
\* changed, then the subscription effect.  It runs when conversationId
\* changes or when sessionPrivateKey changed (fetchMessages and
\* decryptClientMessage are new callbacks then).
subscriptionEffect(c) ==
  LET keyChanged == effectKey # sessionPrivateKey
      cleaned == selectedConversationId # 0
      mountedAtEffects == IF cleaned THEN FALSE ELSE mountedRef
      kept == IF cleaned THEN removeChannel(channels, channelRef) ELSE channels
      refAtEffect == IF cleaned THEN 0 ELSE channelRef
      redecrypts == /\ keyChanged
                    /\ sessionPrivateKey # "null"
                    /\ Len(messages) > 0
                    /\ ~isDecryptingRef
                    /\ mountedAtEffects
      redecrypt == Task("redecrypt", "useRealTimeMessages", 0, sessionPrivateKey,
                        resetMessages, "chunk")
      fetch == Task("fetch", "useRealTimeMessages", c, sessionPrivateKey, <<>>, "select")
      started == (IF redecrypts THEN <<redecrypt>> ELSE <<>>)
                   \o (IF c # 0 THEN <<fetch>> ELSE <<>>)
      survivors == IF c # 0 THEN removeChannel(kept, refAtEffect) ELSE kept IN
  /\ mountedRef
  /\ authUser # "null"
  /\ c # selectedConversationId \/ keyChanged
  /\ Len(tasks) + Len(started) <= MaxTasks
  /\ \A k \in 1..Len(tasks) : tasks[k].hook = "useRealTimeMessages"
  /\ selectedConversationId' = c
  /\ effectKey' = sessionPrivateKey
  /\ mountedRef' = TRUE
  /\ tasks' = tasks \o started
  /\ isDecryptingRef' = (isDecryptingRef \/ redecrypts)
  /\ errorState' = "null"
  /\ events' = {e \in events : \E ch \in survivors : ch.n = e.ch}
  /\ IF c = 0
       THEN /\ messages' = <<>>
            /\ channels' = survivors
            /\ channelRef' = refAtEffect
            /\ UNCHANGED loading
       ELSE /\ loading' = TRUE
            /\ channels' = survivors \cup
                 {[n |-> newChannel(survivors), conv |-> c, key |-> sessionPrivateKey,
                   status |-> "joining"]}
            /\ channelRef' = newChannel(survivors)
            /\ UNCHANGED messages
  /\ UNCHANGED <<serverVars, profiles, messages_table, startedChats, sends, decrypts,
                 sessionPrivateKey, authVars,
                 keyVars, inputVars>>

\* the component unmounts: the cleanup of the subscription effect
cleanup ==
  /\ mountedRef
  /\ selectedConversationId # 0
  /\ mountedRef' = FALSE
  /\ channels' = removeChannel(channels, channelRef)
  /\ channelRef' = 0
  /\ events' = {e \in events : e.ch # channelRef}
  /\ UNCHANGED <<serverVars, profiles, messages_table, startedChats, sends, decrypts,
                 messages, sessionPrivateKey, authVars, selectedConversationId,
                 effectKey, isDecryptingRef, tasks, loading, errorState,
                 keyVars, inputVars>>

\* .subscribe((status) => ...)
subscribeStatus(n) ==
  /\ \E ch \in channels, status \in {"SUBSCRIBED", "CHANNEL_ERROR"} :
       /\ ch.n = n
       /\ ch.status = "joining"
       /\ channels' = (channels \ {ch}) \cup {[ch EXCEPT !.status = status]}
       /\ errorState' =
            IF ~mountedRef THEN errorState
            ELSE IF status = "CHANNEL_ERROR"
              THEN "Connection lost. Messages may not update in real-time."
            ELSE "null"
  /\ UNCHANGED <<serverVars, profiles, messages_table, startedChats, sends, decrypts,
                 messages, mountedRef, sessionPrivateKey, authVars,
                 selectedConversationId, effectKey, isDecryptingRef, channelRef,
                 events, tasks, loading,
                 keyVars, inputVars>>

\* a step of processBatchDecryption of task n led to u: go on, or
\* setMessages(decryptedMessages), clear the flag and, for a fetch, run the
\* finally of fetchMessages
batchStep(n, u) ==
  IF u.pc = "end"
    THEN /\ tasks' = Remove(tasks, n)
         /\ messages' = IF mountedRef THEN u.out ELSE messages
         /\ isDecryptingRef' = FALSE
         /\ loading' = IF u.kind = "fetch" /\ mountedRef THEN FALSE ELSE loading
    ELSE /\ tasks' = [tasks EXCEPT ![n] = u]
         /\ isDecryptingRef' = TRUE
         /\ UNCHANGED <<messages, loading>>

\* fetchMessages: the select resolves
fetchSelectResolves(n) ==
  LET t == tasks[n]
      data == selectMessages(t.conv) IN
  /\ t.kind = "fetch"
  /\ t.pc = "select"
  /\ \E ok \in BOOLEAN :
       IF ~ok
         THEN IF t.retryCount + 1 >= fetchMaxRetries
                THEN /\ errorState' = "Failed to load messages. Please try refreshing."
                     /\ loading' = IF mountedRef THEN FALSE ELSE loading
                     /\ tasks' = Remove(tasks, n)
                     /\ UNCHANGED <<messages, isDecryptingRef>>
                ELSE /\ tasks' = [tasks EXCEPT ![n].retryCount = t.retryCount + 1,
                                               ![n].pc = "retry"]
                     /\ UNCHANGED <<messages, isDecryptingRef, loading, errorState>>
       ELSE IF Len(data) > 0 /\ mountedRef
         THEN IF isDecryptingRef
                THEN /\ tasks' = Remove(tasks, n)
                     /\ loading' = FALSE
                     /\ UNCHANGED <<messages, isDecryptingRef, errorState>>
                ELSE /\ batchStep(n, loopHead([t EXCEPT !.data = data]))
                     /\ UNCHANGED errorState
       ELSE /\ tasks' = Remove(tasks, n)
            /\ messages' = IF mountedRef THEN <<>> ELSE messages
            /\ loading' = IF mountedRef THEN FALSE ELSE loading
            /\ UNCHANGED <<isDecryptingRef, errorState>>
  /\ UNCHANGED <<serverVars, profiles, messages_table, startedChats, sends, decrypts,
                 mountedRef, sessionPrivateKey, authVars, selectedConversationId,
                 effectKey, channelRef, channels, events,
                 keyVars, inputVars>>

\* fetchMessages: the pause after a failed select ends, the loop condition
\* is tested again
fetchRetry(n) ==
  LET t == tasks[n] IN
  /\ t.kind = "fetch"
  /\ t.pc = "retry"
  /\ tasks' = IF mountedRef THEN [tasks EXCEPT ![n].pc = "select"] ELSE Remove(tasks, n)
  /\ UNCHANGED <<serverVars, profiles, messages_table, startedChats, sends, decrypts,
                 messages, mountedRef, sessionPrivateKey, authVars,
                 selectedConversationId, effectKey, isDecryptingRef, channelRef,
                 channels, events, loading, errorState,
                 keyVars, inputVars>>

\* processBatchDecryption of the view: Promise.allSettled of a chunk resolves
viewChunkResolves(n) ==
  /\ tasks[n].kind \in {"fetch", "redecrypt"}
  /\ tasks[n].pc = "chunk"
  /\ batchStep(n, afterChunk(tasks[n]))
  /\ UNCHANGED <<serverVars, profiles, messages_table, startedChats, sends, decrypts,
                 mountedRef, sessionPrivateKey, authVars, selectedConversationId,
                 effectKey, channelRef, channels, events, errorState,
                 keyVars, inputVars>>

\* processBatchDecryption of the view: the 50 ms pause ends
viewDelayResolves(n) ==
  /\ tasks[n].kind \in {"fetch", "redecrypt"}
  /\ tasks[n].pc = "delay"
  /\ batchStep(n, loopHead(tasks[n]))
  /\ UNCHANGED <<serverVars, profiles, messages_table, startedChats, sends, decrypts,
                 mountedRef, sessionPrivateKey, authVars, selectedConversationId,
                 effectKey, channelRef, channels, events, errorState,
                 keyVars, inputVars>>

\* a peer's client inserts a message into conversation c; every subscribed
\* channel filtering on c is notified
peerInsert(c) ==
  /\ Len(messages_table) < MaxRows
  /\ messages_table' = Append(messages_table,
       [id |-> Len(messages_table) + 1, conversation_id |-> c, sender_id |-> "u2",
        content_encrypted |-> encryptMessageClient("hello", user).encryptedMessage,
        iv |-> encryptMessageClient("hello", user).iv])
  /\ events' = events \cup
       {[ch |-> ch.n, id |-> Len(messages_table) + 1] :
          ch \in {x \in channels : x.conv = c /\ x.status = "SUBSCRIBED"}}
  /\ UNCHANGED <<serverVars, profiles, startedChats, sends, decrypts, messages,
                 mountedRef, sessionPrivateKey, authVars, selectedConversationId,
                 effectKey, isDecryptingRef, channelRef, channels, tasks, loading,
                 errorState,
                 keyVars, inputVars>>

\* the postgres_changes handler of a channel is called with an INSERT
\* payload (the realtime service may deliver a notification again).  With a
\* locked closure decryptClientMessage returns at once.
realtimeInsert(e) ==
  LET ch == CHOOSE x \in channels : x.n = e.ch
      m == messages_table[e.id] IN
  /\ e \in events
  /\ \E again \in BOOLEAN : events' = IF again THEN events ELSE events \ {e}
  /\ IF ~mountedRef \/ m.sender_id = user
       THEN UNCHANGED <<messages, tasks>>
     ELSE IF ch.key = "null"
       THEN /\ messages' = appendUnlessShown(messages, Shown(m, clientContent(m, ch.key)))
            /\ UNCHANGED tasks
     ELSE /\ Len(tasks) < MaxTasks
          /\ tasks' = Append(tasks,
               Task("handler", "useRealTimeMessages", ch.conv, ch.key, <<m>>, "decrypt"))
          /\ UNCHANGED messages
  /\ UNCHANGED <<serverVars, profiles, messages_table, startedChats, sends, decrypts,
                 mountedRef, sessionPrivateKey, authVars, selectedConversationId,
                 effectKey, isDecryptingRef, channelRef, channels, loading, errorState,
                 keyVars, inputVars>>

\* the handler's await of decryptClientMessage resolves
handlerResolves(n) ==
  LET t == tasks[n] IN
  /\ t.kind = "handler"
  /\ t.pc = "decrypt"
  /\ tasks' = Remove(tasks, n)
  /\ messages' =
       IF mountedRef
         THEN appendUnlessShown(messages, Shown(t.data[1], clientContent(t.data[1], t.key)))
         ELSE messages
  /\ UNCHANGED <<serverVars, profiles, messages_table, startedChats, sends, decrypts,
                 mountedRef, sessionPrivateKey, authVars, selectedConversationId,
                 effectKey, isDecryptingRef, channelRef, channels, events, loading,
                 errorState,
                 keyVars, inputVars>>

\* ------------------------------------------------------------------------
\* The earlier revision of useRealTimeMessages (second listing of the
\* file): messages are decrypted by the service, the hook has no refs
\* ------------------------------------------------------------------------
batchSizeEarlier == 5

\* decryptMessage(message): the message of the service's decrypt answer, or
\* the failure text when the invoke fails or answers nothing
decryptMessageEarlier(m, netOk) ==
  LET hex == conversations[m.conversation_id]
      sessionKey == hexToUint8Array(hex) IN
  IF /\ netOk
     /\ hex # <<>>
     /\ Len(sessionKey) = KeyBytes
     /\ decryptMessageOk(m.content_encrypted, m.iv, sessionKey)
     /\ m.content_encrypted.pt # ""
    THEN m.content_encrypted.pt
    ELSE FailedServer

\* the effect of the earlier revision for conversationId = c: the cleanup
\* of the previous run removes its channel, then fetchMessages() and a new
\* channel
subscriptionEffectEarlier(c) ==
  LET kept == IF selectedConversationId # 0
                THEN removeChannel(channels, channelRef) ELSE channels IN
  /\ c # selectedConversationId
  /\ Len(tasks) < MaxTasks
  /\ selectedConversationId' = c
  /\ events' = {e \in events : \E ch \in kept : ch.n = e.ch}
  /\ IF c = 0
       THEN /\ messages' = <<>>
            /\ channels' = kept
            /\ channelRef' = 0
            /\ UNCHANGED <<tasks, loading, errorState>>
       ELSE /\ loading' = TRUE
            /\ errorState' = "null"
            /\ tasks' = Append(tasks,
                 Task("fetch", "useRealTimeMessages", c, "null", <<>>, "select"))
            /\ channels' = kept \cup
                 {[n |-> newChannel(kept), conv |-> c, key |-> "null", status |-> "joining"]}
            /\ channelRef' = newChannel(kept)
            /\ UNCHANGED messages
  /\ UNCHANGED <<serverVars, profiles, messages_table, startedChats, sends, decrypts,
                 mountedRef, sessionPrivateKey, authVars, effectKey, isDecryptingRef,
                 keyVars, inputVars>>

\* .subscribe((status) => console.log(...))
subscribeStatusEarlier(n) ==
  /\ \E ch \in channels, status \in {"SUBSCRIBED", "CHANNEL_ERROR"} :
       /\ ch.n = n
       /\ ch.status = "joining"
       /\ channels' = (channels \ {ch}) \cup {[ch EXCEPT !.status = status]}
  /\ UNCHANGED <<serverVars, profiles, messages_table, startedChats, sends, decrypts,
                 messages, mountedRef, sessionPrivateKey, authVars,
                 selectedConversationId, effectKey, isDecryptingRef, channelRef,
                 events, tasks, loading, errorState,
                 keyVars, inputVars>>

\* fetchMessages of the earlier revision: the select resolves
fetchSelectResolvesEarlier(n) ==
  LET t == tasks[n]
      data == selectMessages(t.conv) IN
  /\ t.kind = "fetch"
  /\ t.pc = "select"
  /\ \E ok \in BOOLEAN :
       IF ~ok
         THEN /\ errorState' = "Failed to load messages"
              /\ loading' = FALSE
              /\ tasks' = Remove(tasks, n)
              /\ UNCHANGED messages
       ELSE IF Len(data) > 0
         THEN /\ tasks' = [tasks EXCEPT ![n].data = data, ![n].pc = "decrypt"]
              /\ UNCHANGED <<messages, loading, errorState>>
       ELSE /\ messages' = <<>>
            /\ loading' = FALSE
            /\ tasks' = Remove(tasks, n)
            /\ UNCHANGED errorState
  /\ UNCHANGED <<serverVars, profiles, messages_table, startedChats, sends, decrypts,
                 mountedRef, sessionPrivateKey, authVars, selectedConversationId,
                 effectKey, isDecryptingRef, channelRef, channels, events,
                 keyVars, inputVars>>

\* fetchMessages of the earlier revision: Promise.all of a batch of
\* decryptMessage calls resolves; after the last batch
\* setMessages(decryptedMessages) and the finally
fetchBatchResolvesEarlier(n) ==
  LET t == tasks[n]
      batch == SubSeq(t.data, t.i + 1, Min(t.i + batchSizeEarlier, Len(t.data))) IN
  /\ t.kind = "fetch"
  /\ t.pc = "decrypt"
  /\ \E netOk \in BOOLEAN :
       LET out == t.out \o [k \in 1..Len(batch) |->
                              Shown(batch[k], decryptMessageEarlier(batch[k], netOk))] IN
       IF t.i + batchSizeEarlier < Len(t.data)
         THEN /\ tasks' = [tasks EXCEPT ![n].out = out, ![n].i = t.i + batchSizeEarlier]
              /\ UNCHANGED <<messages, loading>>
         ELSE /\ tasks' = Remove(tasks, n)
              /\ messages' = out
              /\ loading' = FALSE
  /\ UNCHANGED <<serverVars, profiles, messages_table, startedChats, sends, decrypts,
                 mountedRef, sessionPrivateKey, authVars, selectedConversationId,
                 effectKey, isDecryptingRef, channelRef, channels, events, errorState,
                 keyVars, inputVars>>

\* a peer running the same revision inserts a message encrypted by the
\* service into conversation c
peerInsertEarlier(c) ==
  /\ Len(messages_table) < MaxRows
  /\ messages_table' = Append(messages_table,
       [id |-> Len(messages_table) + 1, conversation_id |-> c, sender_id |-> "u2",
        content_encrypted |->
          encryptMessage("hello", hexToUint8Array(conversations[c])).encrypted,
        iv |-> "hex"])
  /\ events' = events \cup
       {[ch |-> ch.n, id |-> Len(messages_table) + 1] :
          ch \in {x \in channels : x.conv = c /\ x.status = "SUBSCRIBED"}}
  /\ UNCHANGED <<serverVars, profiles, startedChats, sends, decrypts, messages,
                 mountedRef, sessionPrivateKey, authVars, selectedConversationId,
                 effectKey, isDecryptingRef, channelRef, channels, tasks, loading,
                 errorState,
                 keyVars, inputVars>>

\* the postgres_changes handler of the earlier revision is called
realtimeInsertEarlier(e) ==
  LET ch == CHOOSE x \in channels : x.n = e.ch
      m == messages_table[e.id] IN
  /\ e \in events
  /\ events' = events \ {e}
  /\ IF m.sender_id = user
       THEN UNCHANGED tasks
       ELSE /\ Len(tasks) < MaxTasks
            /\ tasks' = Append(tasks,
                 Task("handler", "useRealTimeMessages", ch.conv, "null", <<m>>, "decrypt"))
  /\ UNCHANGED <<serverVars, profiles, messages_table, startedChats, sends, decrypts,
                 messages, mountedRef, sessionPrivateKey, authVars,
                 selectedConversationId, effectKey, isDecryptingRef, channelRef,
                 channels, loading, errorState,
                 keyVars, inputVars>>

\* the handler's await of decryptMessage resolves:
\* setMessages(prev => [...prev, decryptedMessage])
handlerResolvesEarlier(n) ==
  LET t == tasks[n] IN
  /\ t.kind = "handler"
  /\ t.pc = "decrypt"
  /\ tasks' = Remove(tasks, n)
  /\ \E netOk \in BOOLEAN :
       messages' = Append(messages, Shown(t.data[1], decryptMessageEarlier(t.data[1], netOk)))
  /\ UNCHANGED <<serverVars, profiles, messages_table, startedChats, sends, decrypts,
                 mountedRef, sessionPrivateKey, authVars, selectedConversationId,
                 effectKey, isDecryptingRef, channelRef, channels, events, loading,
                 errorState,
                 keyVars, inputVars>>

\* ------------------------------------------------------------------------
\* The message input: ChatMessages.handleSendMessage (two revisions) over
\* Chat.handleSendMessage, which shows a toast and rethrows
\* ------------------------------------------------------------------------
InputRevisions == {"part_017", "ChatMessages.tsx"}
InputTexts == Contents \cup {""}

\* useState(''), useState(false), no call of the handler yet
InitInput ==
  /\ chatMessages = [revision |-> "part_017", newMessage |-> "", sending |-> FALSE]
  /\ handleCalls = <<>>

\* onChange of the input: setNewMessage(e.target.value).  The revision with
\* the sending flag disables the input while a send is pending.
onChange(text) ==
  /\ chatMessages.revision = "part_017" => ~chatMessages.sending
  /\ chatMessages' = [chatMessages EXCEPT !.newMessage = text]
  /\ UNCHANGED <<serverVars, profiles, messages_table, startedChats, sends, decrypts,
                 messages, mountedRef, sessionPrivateKey, authVars, viewVars, keyVars,
                 handleCalls>>

\* handleSendMessage up to its await: the guard, setSending(true), and the
\* call of onSendMessage(newMessage), which enters sendMessage of
\* useRealTimeMessages
handleSendMessage ==
  /\ Len(sends) < MaxSends
  /\ trim(chatMessages.newMessage) # ""
  /\ selectedConversationId # 0
  /\ chatMessages.revision = "part_017" => ~chatMessages.sending
  /\ sends' = Append(sends, SendCall("useRealTimeMessages", selectedConversationId,
                                     chatMessages.newMessage))
  /\ handleCalls' = Append(handleCalls,
       [content |-> chatMessages.newMessage, send |-> Len(sends) + 1, pc |-> "awaiting"])
  /\ chatMessages' = [chatMessages EXCEPT !.sending = (chatMessages.revision = "part_017")]
  /\ UNCHANGED <<serverVars, profiles, messages_table, startedChats, decrypts,
                 messages, mountedRef, sessionPrivateKey, authVars, viewVars, keyVars>>

\* a handler that clears the input whether or not the send threw
afterSendCleared(text, threw) == ""

\* the input after the await: setNewMessage('') follows the await inside
\* the try block, the catch block only logs
afterSend(text, threw) == IF threw THEN text ELSE ""

\* handleSendMessage after its await: onSendMessage resolved or threw;
\* finally setSending(false)
handleSendSettles(h) ==
  LET call == handleCalls[h]
      threw == sends[call.send].pc = "thrown" IN
  /\ call.pc = "awaiting"
  /\ sends[call.send].pc \in {"returned", "thrown"}
  /\ chatMessages' = [chatMessages EXCEPT !.newMessage = afterSend(@, threw),
                                          !.sending = FALSE]
  /\ handleCalls' = [handleCalls EXCEPT ![h].pc = IF threw THEN "caught" ELSE "resolved"]
  /\ UNCHANGED <<serverVars, profiles, messages_table, startedChats, sends, decrypts,
                 messages, mountedRef, sessionPrivateKey, authVars, viewVars, keyVars>>

\* ------------------------------------------------------------------------
\* Key management: the local key store (IndexedDB), the public key
\* directory (profiles.public_key), ensurePublicKey, generateAndStoreKeys,
\* retrieveStoredKeys / hasExistingKeys and fetchPublicKey
\* ------------------------------------------------------------------------
\* the key pairs are numbered: a call generates the pair of its position
PairName(n) == <<"1", "2", "3", "4", "5", "6", "7", "8", "9">>[n]

\* publicKeyManager.uploadPublicKey stores base64 of the SPKI export,
\* useE2ECrypto.uploadPublicKey the JSON of the JWK export
spki(n) == "spki_" \o PairName(n)
jwk(n) == "jwk_" \o PairName(n)

KeyCall(kind, pc) ==
  [kind |-> kind, pc |-> pc, pair |-> 0, result |-> "", error |-> "", absent |-> FALSE]

\* indexedDB.open('SecureTalkKeys', 1) of retrieveStoredKeys, which sets no
\* onupgradeneeded: a database that does not exist is created without
\* object stores
openForRetrieve(db) == [db EXCEPT !.created = TRUE]

\* indexedDB.open('SecureTalkKeys', 1) of storeKeysSecurely: onupgradeneeded
\* runs only when the database is created, and creates the store
openForStore(db) ==
  IF db.created THEN db ELSE [db EXCEPT !.created = TRUE, !.store = TRUE]

\* retrieveStoredKeys(userId) or hasExistingKeys(userId) is called
retrieveStoredKeys ==
  /\ Len(keyCalls) < MaxKeyCalls
  /\ \E kind \in {"retrieveStoredKeys", "hasExistingKeys"} :
       keyCalls' = Append(keyCalls, KeyCall(kind, "open"))
  /\ UNCHANGED <<serverVars, profiles, messages_table, startedChats, sends, decrypts,
                 messages, mountedRef, sessionPrivateKey, authVars, viewVars, keyDb, inputVars>>

\* the outcome of a retrieveStoredKeys promise, as its caller sees it
settleRetrieve(call, pc, result, error) ==
  IF call.kind = "hasExistingKeys"
    THEN [call EXCEPT !.pc = "done",
                      !.result = IF pc = "done" /\ result # "null" THEN "true" ELSE "false"]
    ELSE [call EXCEPT !.pc = pc, !.result = result, !.error = error]

\* request.onerror, or request.onsuccess: db.transaction(['keys']) throws
\* NotFoundError inside the handler when the store does not exist, and
\* nothing settles the promise then
retrieveOpened(n) ==
  LET call == keyCalls[n]
      db == openForRetrieve(keyDb) IN
  /\ call.kind \in {"retrieveStoredKeys", "hasExistingKeys"}
  /\ call.pc = "open"
  /\ \E openOk \in BOOLEAN :
       IF ~openOk
         THEN /\ keyCalls' = [keyCalls EXCEPT ![n] =
                   settleRetrieve(call, "rejected", "", "Failed to open IndexedDB")]
              /\ UNCHANGED keyDb
         ELSE /\ keyDb' = db
              /\ keyCalls' = [keyCalls EXCEPT ![n] =
                   [call EXCEPT !.pc = IF db.store THEN "get" ELSE "unsettled",
                                !.absent = (db.entry = 0)]]
  /\ UNCHANGED <<serverVars, profiles, messages_table, startedChats, sends, decrypts,
                 messages, mountedRef, sessionPrivateKey, authVars, viewVars, inputVars>>

\* getRequest.onsuccess / getRequest.onerror
retrieveGot(n) ==
  LET call == keyCalls[n] IN
  /\ call.kind \in {"retrieveStoredKeys", "hasExistingKeys"}
  /\ call.pc = "get"
  /\ \E getOk \in BOOLEAN :
       keyCalls' = [keyCalls EXCEPT ![n] =
         IF getOk
           THEN settleRetrieve([call EXCEPT !.absent = (keyDb.entry = 0)], "done",
                               IF keyDb.entry = 0 THEN "null" ELSE PairName(keyDb.entry), "")
           ELSE settleRetrieve(call, "rejected", "", "Failed to retrieve keys")]
  /\ UNCHANGED <<serverVars, profiles, messages_table, startedChats, sends, decrypts,
                 messages, mountedRef, sessionPrivateKey, authVars, viewVars, keyDb, inputVars>>

\* initializeE2EE(password) -> generateAndStoreKeys(user.id, password), up
\* to storeKeysSecurely: the pair is generated and wrapped
generateAndStoreKeys ==
  /\ Len(keyCalls) < MaxKeyCalls
  /\ authUser # "null"
  /\ \E cryptoOk \in BOOLEAN :
       keyCalls' = Append(keyCalls,
         IF cryptoOk
           THEN [KeyCall("generateAndStoreKeys", "store") EXCEPT !.pair = Len(keyCalls) + 1]
           ELSE [KeyCall("generateAndStoreKeys", "thrown")
                   EXCEPT !.error = "Failed to generate key pair"])
  /\ UNCHANGED <<serverVars, profiles, messages_table, startedChats, sends, decrypts,
                 messages, mountedRef, sessionPrivateKey, authVars, viewVars, keyDb, inputVars>>

\* storeKeysSecurely resolves or rejects: store.put({ userId, ...keyData })
\* replaces the entry of the user
storeKeysResolves(n) ==
  LET call == keyCalls[n]
      db == openForStore(keyDb) IN
  /\ call.kind = "generateAndStoreKeys"
  /\ call.pc = "store"
  /\ \E openOk \in BOOLEAN, putOk \in BOOLEAN :
       IF ~openOk
         THEN /\ keyCalls' = [keyCalls EXCEPT ![n].pc = "thrown",
                                              ![n].error = "Failed to open IndexedDB"]
              /\ UNCHANGED keyDb
       ELSE IF ~db.store
         THEN /\ keyCalls' = [keyCalls EXCEPT ![n].pc = "unsettled"]
              /\ keyDb' = db
       ELSE IF ~putOk
         THEN /\ keyCalls' = [keyCalls EXCEPT ![n].pc = "thrown",
                                              ![n].error = "Failed to store keys"]
              /\ keyDb' = db
       ELSE /\ keyCalls' = [keyCalls EXCEPT ![n].pc = "upload"]
            /\ keyDb' = [db EXCEPT !.entry = call.pair]
  /\ UNCHANGED <<serverVars, profiles, messages_table, startedChats, sends, decrypts,
                 messages, mountedRef, sessionPrivateKey, authVars, viewVars, inputVars>>

\* useE2ECrypto.uploadPublicKey resolves: profiles.update({ public_key })
uploadResolves(n) ==
  LET call == keyCalls[n] IN
  /\ call.kind = "generateAndStoreKeys"
  /\ call.pc = "upload"
  /\ \E updateOk \in BOOLEAN :
       IF updateOk
         THEN /\ profiles' = [profiles EXCEPT ![user] = jwk(call.pair)]
              /\ keyCalls' = [keyCalls EXCEPT ![n].pc = "done"]
         ELSE /\ keyCalls' = [keyCalls EXCEPT ![n].pc = "thrown",
                                              ![n].error = "Public key upload failed"]
              /\ UNCHANGED profiles
  /\ UNCHANGED <<serverVars, messages_table, startedChats, sends, decrypts,
                 messages, mountedRef, sessionPrivateKey, authVars, viewVars, keyDb, inputVars>>

\* ensurePublicKey(userId), scheduled by the SIGNED_IN handler and by the
\* initial-session handler
ensurePublicKey ==
  /\ Len(keyCalls) < MaxKeyCalls
  /\ authUser # "null"
  /\ keyCalls' = Append(keyCalls, KeyCall("ensurePublicKey", "select"))
  /\ UNCHANGED <<serverVars, profiles, messages_table, startedChats, sends, decrypts,
                 messages, mountedRef, sessionPrivateKey, authVars, viewVars, keyDb, inputVars>>

\* the select of profiles.public_key resolved without error
ensureSelected(call, published) ==
  IF published # ""
    THEN [call EXCEPT !.pc = "done", !.result = "exists"]
    ELSE [call EXCEPT !.pc = "upload", !.absent = TRUE]

\* ensurePublicKey: the select resolves; generateKeyPair() when there is no
\* key
ensureSelectResolves(n) ==
  LET call == keyCalls[n] IN
  /\ call.kind = "ensurePublicKey"
  /\ call.pc = "select"
  /\ \E selectOk \in BOOLEAN, cryptoOk \in BOOLEAN :
       keyCalls' = [keyCalls EXCEPT ![n] =
         IF ~selectOk THEN [call EXCEPT !.pc = "done", !.error = "fetchError"]
         ELSE IF ensureSelected(call, profiles[user]).pc = "upload" /\ ~cryptoOk
           THEN [call EXCEPT !.pc = "done", !.error = "Error ensuring public key"]
         ELSE [ensureSelected(call, profiles[user]) EXCEPT !.pair = n]]
  /\ UNCHANGED <<serverVars, profiles, messages_table, startedChats, sends, decrypts,
                 messages, mountedRef, sessionPrivateKey, authVars, viewVars, keyDb, inputVars>>

\* ensurePublicKey: publicKeyManager.uploadPublicKey resolves
ensureUploadResolves(n) ==
  LET call == keyCalls[n] IN
  /\ call.kind = "ensurePublicKey"
  /\ call.pc = "upload"
  /\ \E updateOk \in BOOLEAN :
       IF updateOk
         THEN /\ profiles' = [profiles EXCEPT ![user] = spki(call.pair)]
              /\ keyCalls' = [keyCalls EXCEPT ![n].pc = "done", ![n].result = "uploaded"]
         ELSE /\ keyCalls' = [keyCalls EXCEPT ![n].pc = "done",
                                              ![n].error = "Error ensuring public key"]
              /\ UNCHANGED profiles
  /\ UNCHANGED <<serverVars, messages_table, startedChats, sends, decrypts,
                 messages, mountedRef, sessionPrivateKey, authVars, viewVars, keyDb, inputVars>>

\* atob(data.public_key) and importKey("spki", ...) succeed for base64 of an
\* SPKI export only
importPublicKeyOk(published) ==
  published \in {"spki"} \cup {spki(k) : k \in 1..9}

\* publicKeyManager.fetchPublicKey(userId): the error it throws, "" when it
\* returns the key; every inner error goes through the outer catch
fetchPublicKeyError(queryOk, published) ==
  LET inner == IF ~queryOk THEN "Failed to fetch public key: error"
               ELSE IF published = "" THEN "No public key found for user"
               ELSE IF ~importPublicKeyOk(published) THEN "importKey failed"
               ELSE "" IN
  IF inner = "" THEN "" ELSE "Public key retrieval failed"

\* fetchPublicKey(userId) is called and ends
fetchPublicKey ==
  /\ Len(keyCalls) < MaxKeyCalls
  /\ \E userId \in Users, queryOk \in BOOLEAN :
       keyCalls' = Append(keyCalls,
         [KeyCall("fetchPublicKey", IF fetchPublicKeyError(queryOk, profiles[userId]) = ""
                                      THEN "done" ELSE "thrown")
            EXCEPT !.error = fetchPublicKeyError(queryOk, profiles[userId]),
                   !.absent = queryOk /\ profiles[userId] = "",
                   !.result = IF queryOk THEN "answered" ELSE "failed"])
  /\ UNCHANGED <<serverVars, profiles, messages_table, startedChats, sends, decrypts,
                 messages, mountedRef, sessionPrivateKey, authVars, viewVars, keyDb, inputVars>>

\* a row a peer's client stored for the signed-in user on the hybrid path
PeerRow ==
  [id |-> 1, conversation_id |-> 1, sender_id |-> "u2",
   content_encrypted |-> [enc |-> "base64", mode |-> "hybrid", key |-> <<>>,
                          to |-> user, pt |-> "hi"],
   iv |-> "base64"]

\* a signed-in user whose keys are stored and locked
InitAuth ==
  /\ authUser = user
  /\ hasE2EEKeys = TRUE
  /\ isUnlockModalOpen = TRUE
  /\ keyChecks = 0
  /\ unlocks = <<>>
  /\ keyDb = [created |-> TRUE, store |-> TRUE, entry |-> 9]
  /\ keyCalls = <<>>
  /\ InitInput

\* no conversation selected
InitView ==
  /\ selectedConversationId = 0
  /\ effectKey = "null"
  /\ isDecryptingRef = FALSE
  /\ channelRef = 0
  /\ channels = {}
  /\ events = {}
  /\ tasks = <<>>
  /\ loading = FALSE
  /\ errorState = "null"

InitClient ==
  /\ InitAuth
  /\ InitView
  /\ profiles \in {[u \in Users |-> IF u = user \/ u \in P THEN "spki" ELSE ""] : P \in SUBSET {"u2"}}
  /\ messages_table = <<PeerRow>>
  /\ sends = <<>>
  /\ decrypts = <<>>
  /\ messages = <<>>
  /\ mountedRef = TRUE
  /\ sessionPrivateKey = "null"

\* the service alone: conversation 1 has no session key yet, conversation 2
\* is as startChat left it
InitServer ==
  /\ conversations = (1 :> <<>>) @@ (2 :> temp_key)
  /\ participants = (1 :> {"u1", "u2"}) @@ (2 :> {"u1", "u3"})
  /\ startedChats = {2}
  /\ requests = <<>>
  /\ audit_logs = <<>>
  /\ InitClient
  /\ profiles["u2"] = ""

NextServer ==
  \/ serve
  \/ \E i \in 1..Len(requests) : encrypt_select(i)
  \/ \E i \in 1..Len(requests) : encrypt_key(i)
  \/ \E i \in 1..Len(requests) : encrypt_cipher(i)
  \/ \E i \in 1..Len(requests) : decrypt_check(i)
  \/ \E i \in 1..Len(requests) : decrypt_select(i)
  \/ \E i \in 1..Len(requests) : decrypt_cipher(i)

\* the client and the service: conversation 1 exists between the user and u2
Init ==
  /\ conversations = (1 :> <<>>)
  /\ participants = (1 :> {"u1", "u2"})
  /\ startedChats = {}
  /\ requests = <<>>
  /\ audit_logs = <<>>
  /\ InitClient

Next ==
  \/ startChat
  \/ sendMessage
  \/ \E n \in 1..Len(sends) : clientSide(n)
  \/ \E n \in 1..Len(sends) : encryptMessageServerSide(n)
  \/ \E n \in 1..Len(sends) : serverEncryptReturns(n)
  \/ \E n \in 1..Len(sends) : insertMessage(n)
  \/ \E n \in 1..Len(sends) : insertResolves(n)
  \/ unmount
  \/ mount
  \/ \E i \in 1..Len(requests) : encrypt_select(i)
  \/ \E i \in 1..Len(requests) : encrypt_key(i)
  \/ \E i \in 1..Len(requests) : encrypt_cipher(i)

Spec == Init /\ [][Next]_vars

\* the steps the client and the service take by themselves are taken; a
\* response of the network (the recipient and public key queries, the
\* result of invoke, the result of the insert) may never arrive, and no
\* step of sendMessage waits on a timer
SendFairness ==
  /\ WF_vars(\E n \in 1..Len(sends) : encryptMessageServerSide(n))
  /\ WF_vars(\E n \in 1..Len(sends) : insertMessage(n))
  /\ WF_vars(\E i \in 1..Len(requests) : encrypt_select(i))
  /\ WF_vars(\E i \in 1..Len(requests) : encrypt_key(i))
  /\ WF_vars(\E i \in 1..Len(requests) : encrypt_cipher(i))

SpecLive == Init /\ [][Next]_vars /\ SendFairness

\* the receiving client after a reload: conversation 1 holds a session key
\* and three rows, one from the peer on the hybrid path, one the user sent
\* on the server-side path and one the user sent on the hybrid path
ServerRow ==
  [id |-> 2, conversation_id |-> 1, sender_id |-> user,
   content_encrypted |-> encryptMessage("hello", CHOOSE k \in generateKey : k[1] = 161).encrypted,
   iv |-> "hex"]

OwnRow ==
  [id |-> 3, conversation_id |-> 1, sender_id |-> user,
   content_encrypted |-> encryptMessageClient("hello", "u2").encryptedMessage,
   iv |-> "base64"]

InitReceive ==
  /\ conversations = (1 :> uint8ArrayToHex(CHOOSE k \in generateKey : k[1] = 161))
  /\ participants = (1 :> {"u1", "u2"})
  /\ startedChats = {}
  /\ requests = <<>>
  /\ audit_logs = <<>>
  /\ profiles = [u \in Users |-> IF u = "u3" THEN "" ELSE "spki"]
  /\ messages_table = <<PeerRow, ServerRow, OwnRow>>
  /\ sends = <<>>
  /\ decrypts = <<>>
  /\ messages = <<>>
  /\ mountedRef = TRUE
  /\ sessionPrivateKey = "null"
  /\ InitAuth
  /\ InitView

NextReceive ==
  \/ unlockKeys
  \/ \E n \in 1..Len(unlocks) : unlockRetrieved(n)
  \/ \E n \in 1..Len(unlocks) : unlockDecrypted(n)
  \/ decryptClientMessage
  \/ decryptSingleMessage
  \/ \E n \in 1..Len(decrypts) : serverDecryptReturns(n)
  \/ \E i \in 1..Len(requests) : decrypt_check(i)
  \/ \E i \in 1..Len(requests) : decrypt_select(i)
  \/ \E i \in 1..Len(requests) : decrypt_cipher(i)
  \/ unmount
  \/ mount

SpecReceive == InitReceive /\ [][NextReceive]_vars

SpecServer == InitServer /\ [][NextServer]_vars

\* batch decryption of the rows of conversation 1, locked or unlocked: a
\* second row of the peer follows the three of InitReceive
PeerRow2 ==
  [id |-> 4, conversation_id |-> 1, sender_id |-> "u2",
   content_encrypted |-> [enc |-> "base64", mode |-> "hybrid", key |-> <<>>,
                          to |-> user, pt |-> "bye"],
   iv |-> "base64"]

InitBatch ==
  /\ conversations = (1 :> uint8ArrayToHex(CHOOSE k \in generateKey : k[1] = 161))
  /\ participants = (1 :> {"u1", "u2"})
  /\ startedChats = {}
  /\ requests = <<>>
  /\ audit_logs = <<>>
  /\ profiles = [u \in Users |-> IF u = "u3" THEN "" ELSE "spki"]
  /\ messages_table = <<PeerRow, ServerRow, OwnRow, PeerRow2>>
  /\ sends = <<>>
  /\ decrypts = <<>>
  /\ messages = <<>>
  /\ mountedRef = TRUE
  /\ sessionPrivateKey \in {"null", "priv_" \o user}
  /\ InitAuth
  /\ InitView

NextBatch ==
  \/ processBatchDecryption
  \/ \E n \in 1..Len(tasks) : batchChunkResolves(n)
  \/ \E n \in 1..Len(tasks) : batchDelayResolves(n)
  \/ processBatchDecryptionAll
  \/ \E n \in 1..Len(tasks) : batchAllSettles(n)
  \/ \E n \in 1..Len(decrypts) : serverDecryptReturns(n)
  \/ \E i \in 1..Len(requests) : decrypt_check(i)
  \/ \E i \in 1..Len(requests) : decrypt_select(i)
  \/ \E i \in 1..Len(requests) : decrypt_cipher(i)
  \/ unmount

SpecBatch == InitBatch /\ [][NextBatch]_vars

\* part_005 alone, over batches of up to MaxBatch fetched messages
NextAll ==
  \/ processBatchDecryptionUpTo(MaxBatch)
  \/ \E n \in 1..Len(tasks) : batchAllSettles(n)
  \/ \E n \in 1..Len(decrypts) : serverDecryptReturns(n)
  \/ \E i \in 1..Len(requests) : decrypt_check(i)
  \/ \E i \in 1..Len(requests) : decrypt_select(i)
  \/ \E i \in 1..Len(requests) : decrypt_cipher(i)

SpecAll == InitBatch /\ [][NextAll]_vars

\* the auth provider before the initial session is reported
InitSignedOut ==
  /\ conversations = (1 :> <<>>)
  /\ participants = (1 :> {"u1", "u2"})
  /\ startedChats = {}
  /\ requests = <<>>
  /\ audit_logs = <<>>
  /\ profiles = [u \in Users |-> IF u = "u3" THEN "" ELSE "spki"]
  /\ messages_table = <<PeerRow>>
  /\ sends = <<>>
  /\ decrypts = <<>>
  /\ messages = <<>>
  /\ mountedRef = TRUE
  /\ sessionPrivateKey = "null"
  /\ authUser = "null"
  /\ hasE2EEKeys = FALSE
  /\ isUnlockModalOpen = FALSE
  /\ keyChecks = 0
  /\ unlocks = <<>>
  /\ keyDb = [created |-> TRUE, store |-> TRUE, entry |-> 9]
  /\ keyCalls = <<>>
  /\ InitInput
  /\ InitView

NextAuth ==
  \/ signedIn
  \/ hasKeysResolves
  \/ signedOut
  \/ unlockKeys
  \/ \E n \in 1..Len(unlocks) : unlockRetrieved(n)
  \/ \E n \in 1..Len(unlocks) : unlockDecrypted(n)

SpecAuth == InitSignedOut /\ [][NextAuth]_vars

\* ------------------------------------------------------------------------
\* The message view of a signed-in, locked user with two conversations
\* ------------------------------------------------------------------------
OtherRow ==
  [id |-> 5, conversation_id |-> 2, sender_id |-> "u2",
   content_encrypted |-> [enc |-> "base64", mode |-> "hybrid", key |-> <<>>,
                          to |-> user, pt |-> "yo"],
   iv |-> "base64"]

\* conversation 1 or 2 or none is selected, keys are unlocked meanwhile
InitLocked ==
  /\ conversations = (1 :> <<>>) @@ (2 :> <<>>)
  /\ participants = (1 :> {"u1", "u2"}) @@ (2 :> {"u1", "u2"})
  /\ startedChats = {}
  /\ requests = <<>>
  /\ audit_logs = <<>>
  /\ profiles = [u \in Users |-> IF u = "u3" THEN "" ELSE "spki"]
  /\ messages_table = <<PeerRow, ServerRow, OwnRow, PeerRow2, OtherRow>>
  /\ sends = <<>>
  /\ decrypts = <<>>
  /\ messages = <<>>
  /\ mountedRef = TRUE
  /\ sessionPrivateKey = "null"
  /\ InitAuth
  /\ InitView

NextView ==
  \/ \E c \in {0} \cup DOMAIN conversations : subscriptionEffect(c)
  \/ cleanup
  \/ \E n \in 1..MaxTasks : subscribeStatus(n)
  \/ \E n \in 1..Len(tasks) : fetchSelectResolves(n)
  \/ \E n \in 1..Len(tasks) : fetchRetry(n)
  \/ \E n \in 1..Len(tasks) : viewChunkResolves(n)
  \/ \E n \in 1..Len(tasks) : viewDelayResolves(n)
  \/ unlockKeys /\ unlocks = <<>>
  \/ \E n \in 1..Len(unlocks) : unlockRetrieved(n)
  \/ \E n \in 1..Len(unlocks) : unlockDecrypted(n)

SpecView == InitLocked /\ [][NextView]_vars

\* messages arrive and are sent while a conversation is shown, the keys
\* locked or unlocked throughout; no conversation grows beyond one chunk of
\* batchSize rows, so no batch pauses
InitMessages ==
  /\ conversations = (1 :> <<>>) @@ (2 :> <<>>)
  /\ participants = (1 :> {"u1", "u2"}) @@ (2 :> {"u1", "u2"})
  /\ startedChats = {}
  /\ requests = <<>>
  /\ audit_logs = <<>>
  /\ profiles = [u \in Users |-> IF u = "u3" THEN "" ELSE "spki"]
  /\ messages_table = <<PeerRow, [OtherRow EXCEPT !.id = 2]>>
  /\ sends = <<>>
  /\ decrypts = <<>>
  /\ messages = <<>>
  /\ mountedRef = TRUE
  /\ sessionPrivateKey \in {"null", "priv_" \o user}
  /\ InitAuth
  /\ isDecryptingRef = FALSE
  /\ channelRef = 0
  /\ channels = {}
  /\ events = {}
  /\ tasks = <<>>
  /\ loading = FALSE
  /\ errorState = "null"
  /\ selectedConversationId = 0
  /\ effectKey = sessionPrivateKey

NextMessages ==
  \/ \E c \in {0} \cup DOMAIN conversations : subscriptionEffect(c)
  \/ \E n \in 1..MaxTasks : subscribeStatus(n)
  \/ \E n \in 1..Len(tasks) : fetchSelectResolves(n)
  \/ \E n \in 1..Len(tasks) : fetchRetry(n)
  \/ \E n \in 1..Len(tasks) : viewChunkResolves(n)
  \/ \E c \in DOMAIN conversations : peerInsert(c)
  \/ \E e \in events : realtimeInsert(e)
  \/ \E n \in 1..Len(tasks) : handlerResolves(n)
  \/ /\ sendMessage
     /\ sends'[Len(sends')].hook = "useRealTimeMessages"
     /\ sends'[Len(sends')].conversationId = selectedConversationId
  \/ \E n \in 1..Len(sends) : clientSide(n)
  \/ \E n \in 1..Len(sends) : insertMessage(n)
  \/ \E n \in 1..Len(sends) : insertResolves(n)

SpecMessages == InitMessages /\ [][NextMessages]_vars

\* the earlier revision showing conversation 1, whose messages the service
\* encrypted
InitEarlier ==
  /\ conversations = (1 :> uint8ArrayToHex(CHOOSE k \in generateKey : k[1] = 161))
  /\ participants = (1 :> {"u1", "u2"})
  /\ startedChats = {}
  /\ requests = <<>>
  /\ audit_logs = <<>>
  /\ profiles = [u \in Users |-> ""]
  /\ messages_table = <<[ServerRow EXCEPT !.id = 1, !.sender_id = "u2"]>>
  /\ sends = <<>>
  /\ decrypts = <<>>
  /\ messages = <<>>
  /\ mountedRef = TRUE
  /\ sessionPrivateKey = "null"
  /\ InitAuth
  /\ InitView

NextEarlier ==
  \/ \E c \in {0} \cup DOMAIN conversations : subscriptionEffectEarlier(c)
  \/ \E n \in 1..MaxTasks : subscribeStatusEarlier(n)
  \/ \E n \in 1..Len(tasks) : fetchSelectResolvesEarlier(n)
  \/ \E n \in 1..Len(tasks) : fetchBatchResolvesEarlier(n)
  \/ \E c \in DOMAIN conversations : peerInsertEarlier(c)
  \/ \E e \in events : realtimeInsertEarlier(e)
  \/ \E n \in 1..Len(tasks) : handlerResolvesEarlier(n)

SpecEarlier == InitEarlier /\ [][NextEarlier]_vars

\* key management on a device: its database was never created, or holds
\* the empty store, or holds the pair the user published
InitKeys ==
  /\ conversations = (1 :> <<>>)
  /\ participants = (1 :> {"u1", "u2"})
  /\ startedChats = {}
  /\ requests = <<>>
  /\ audit_logs = <<>>
  /\ messages_table = <<PeerRow>>
  /\ sends = <<>>
  /\ decrypts = <<>>
  /\ messages = <<>>
  /\ mountedRef = TRUE
  /\ sessionPrivateKey = "null"
  /\ authUser = user
  /\ hasE2EEKeys = FALSE
  /\ isUnlockModalOpen = FALSE
  /\ keyChecks = 0
  /\ unlocks = <<>>
  /\ InitView
  /\ keyCalls = <<>>
  /\ InitInput
  /\ \E device \in {"new", "empty", "stored"} :
       /\ keyDb = [created |-> device # "new", store |-> device # "new",
                   entry |-> IF device = "stored" THEN 9 ELSE 0]
       /\ profiles = [u \in Users |->
                        IF u = user THEN (IF device = "stored" THEN jwk(9) ELSE "")
                        ELSE IF u = "u2" THEN "spki" ELSE ""]

NextKeys ==
  \/ retrieveStoredKeys
  \/ \E n \in 1..Len(keyCalls) : retrieveOpened(n)
  \/ \E n \in 1..Len(keyCalls) : retrieveGot(n)
  \/ generateAndStoreKeys
  \/ \E n \in 1..Len(keyCalls) : storeKeysResolves(n)
  \/ \E n \in 1..Len(keyCalls) : uploadResolves(n)
  \/ ensurePublicKey
  \/ \E n \in 1..Len(keyCalls) : ensureSelectResolves(n)
  \/ \E n \in 1..Len(keyCalls) : ensureUploadResolves(n)
  \/ fetchPublicKey

SpecKeys == InitKeys /\ [][NextKeys]_vars

\* the service over a conversation whose session key was persisted before:
\* empty, in the hex format the service writes, or in base64; conversation 2
\* is as startChat left it
InitStored ==
  /\ \E k \in generateKey :
       conversations \in [{1, 2} -> {<<>>, uint8ArrayToHex(k), btoa(k), temp_key}]
  /\ conversations[2] = temp_key
  /\ participants = (1 :> {"u1", "u2"}) @@ (2 :> {"u1", "u3"})
  /\ startedChats = {2}
  /\ requests = <<>>
  /\ audit_logs = <<>>
  /\ InitClient
  /\ profiles["u2"] = ""

SpecStored == InitStored /\ [][NextServer]_vars

\* the message input over the send path: conversation 1 is selected, the
\* input is empty, either revision of ChatMessages is deployed
InitChat ==
  /\ conversations = (1 :> <<>>)
  /\ participants = (1 :> {"u1", "u2"})
  /\ startedChats = {}
  /\ requests = <<>>
  /\ audit_logs = <<>>
  /\ profiles \in {[u \in Users |-> IF u = user \/ u \in P THEN "spki" ELSE ""] : P \in SUBSET {"u2"}}
  /\ messages_table = <<PeerRow>>
  /\ sends = <<>>
  /\ decrypts = <<>>
  /\ messages = <<>>
  /\ mountedRef = TRUE
  /\ sessionPrivateKey = "null"
  /\ authUser = user
  /\ hasE2EEKeys = TRUE
  /\ isUnlockModalOpen = TRUE
  /\ keyChecks = 0
  /\ unlocks = <<>>
  /\ keyDb = [created |-> TRUE, store |-> TRUE, entry |-> 9]
  /\ keyCalls = <<>>
  /\ selectedConversationId = 1
  /\ effectKey = "null"
  /\ isDecryptingRef = FALSE
  /\ channelRef = 0
  /\ channels = {}
  /\ events = {}
  /\ tasks = <<>>
  /\ loading = FALSE
  /\ errorState = "null"
  /\ chatMessages \in {[revision |-> rev, newMessage |-> "", sending |-> FALSE] :
                         rev \in InputRevisions}
  /\ handleCalls = <<>>

NextChat ==
  \/ \E text \in InputTexts : onChange(text)
  \/ handleSendMessage
  \/ \E h \in 1..Len(handleCalls) : handleSendSettles(h)
  \/ \E n \in 1..Len(sends) : clientSide(n)
  \/ \E n \in 1..Len(sends) : insertMessage(n)
  \/ \E n \in 1..Len(sends) : insertResolves(n)

SpecChat == InitChat /\ [][NextChat]_vars

\* ------------------------------------------------------------------------
\* Properties of the send orchestrator (checked under Spec)
\* ------------------------------------------------------------------------
Ended(s) == s.pc \in {"returned", "thrown"}

\* the server-side encrypt call of a send has been made or is about to be
ServerEncryptReached(s) ==
  s.pc = "server_invoke" \/ s.request # 0 \/ s.serverError

\* C1: in every sendMessage, a failure of the client-side path (no
\* recipient, no public key, client encryption throws) is followed by the
\* server-side encrypt call and never by itself makes the send fail.
C1_ClientFailureFallsBack ==
  \A n \in 1..Len(sends) :
    sends[n].keyError # "" => ServerEncryptReached(sends[n])

\* C2: when the client-side path failed and the server-side encrypt call
\* failed too, sendMessage has thrown to its caller and has attempted no
\* insert into the messages table.
C2_BothFailedNoInsert ==
  \A n \in 1..Len(sends) :
    (sends[n].keyError # "" /\ sends[n].serverError)
      => /\ sends[n].pc = "thrown"
         /\ sends[n].error # ""
         /\ sends[n].inserts = 0
         /\ sends[n].messageData = 0

C2_Witness ==
  \E n \in 1..Len(sends) :
    /\ sends[n].keyError = "Public key retrieval failed"
    /\ sends[n].serverError
    /\ sends[n].request # 0
    /\ requests[sends[n].request].status = 500
    /\ sends[n].pc = "thrown"

\* C3: one sendMessage makes at most 3 insert attempts, attempts nothing
\* after a successful insert, and has thrown after the third consecutive
\* failure.
C3_AtMostThreeInserts ==
  \A n \in 1..Len(sends) :
    LET s == sends[n] IN
    /\ s.inserts <= 3
    /\ s.messageData # 0 => s.pc \in {"insert_wait", "returned", "thrown"}
    /\ (s.inserts = 3 /\ s.retryCount = 3) => (s.pc = "thrown" /\ s.messageData = 0)
    /\ s.pc = "persist" => s.inserts = s.retryCount

C3_Witness ==
  \E n \in 1..Len(sends) :
    /\ sends[n].inserts = 3
    /\ sends[n].retryCount = 3
    /\ sends[n].pc = "thrown"
    /\ sends[n].error = "Failed to send message"

\* C4: every message in the displayed list, and every message a sendMessage
\* call returned, has a persisted row with its id, stored by that send.
C4_ShownOnlyIfPersisted ==
  /\ \A k \in 1..Len(messages) :
       \E j \in 1..Len(messages_table) : messages_table[j].id = messages[k].id
  /\ \A n \in 1..Len(sends) :
       sends[n].pc = "returned" =>
         \E j \in 1..Len(messages_table) :
           /\ messages_table[j].id = newMessage(sends[n]).id
           /\ messages_table[j].sender_id = user
           /\ messages_table[j].content_encrypted = sends[n].encryptedMessage

C4_Witness ==
  /\ \E k \in 1..Len(messages) : messages[k].decrypted_content = "hello"
  /\ \E n \in 1..Len(sends) :
       sends[n].pc = "returned" /\ sends[n].hook = "useRealTimeMessages"
         /\ sends[n].retryCount > 0

\* what the decrypt action of the service answers a participant for a row
ServerDecrypts(row) ==
  LET key == hexToUint8Array(conversations[row.conversation_id]) IN
  /\ conversations[row.conversation_id] # <<>>
  /\ Len(key) = KeyBytes
  /\ decryptMessageOk(row.content_encrypted, row.iv, key)

\* C5: a send on a conversation made by startChat, to a recipient without a
\* published public key, that meets no failure of the network, the store or
\* the view, returns through the server-side path, and its row is decrypted
\* to the plaintext by the decrypt action of the service.
C5_FallbackCoverage ==
  \A n \in 1..Len(sends) :
    LET s == sends[n] IN
    (/\ s.hook \in {"part_001", "part_000"}
     /\ s.conversationId \in startedChats
     /\ s.keyError = "Public key retrieval failed"
     /\ \A u \in participants[s.conversationId] \ {user} : profiles[u] = ""
     /\ ~s.fault
     /\ Ended(s))
      => /\ s.pc = "returned"
         /\ s.encryptionMethod = "server-side"
         /\ \E j \in 1..Len(messages_table) :
              /\ messages_table[j].id = s.messageData
              /\ ServerDecrypts(messages_table[j])

\* ------------------------------------------------------------------------
\* Properties of the session cipher service (checked under SpecServer)
\* ------------------------------------------------------------------------
\* the request created the session key of its conversation
CreatedKey(r) ==
  r.action = "encrypt" /\ r.conversation = <<>> /\ r.sessionKey # <<>>

\* C6: every ciphertext a successful encrypt returned is decryptable with
\* the session key stored on its conversation, in every later state (so no
\* request, overlapping ones included, replaces a persisted key).
C6_PersistedKeyStable ==
  \A i \in 1..Len(requests) :
    (requests[i].action = "encrypt" /\ requests[i].status = 200)
      => decryptMessageOk(requests[i].result, "hex",
                          hexToUint8Array(conversations[requests[i].conversationId]))

\* C7: a cipher operation is performed only for a participant: a caller who
\* is no participant of the conversation gets no ciphertext and no
\* plaintext and creates no session key.
C7_ParticipantsOnly ==
  \A i \in 1..Len(requests) :
    (requests[i].status = 200 \/ CreatedKey(requests[i]))
      => requests[i].user \in participants[requests[i].conversationId]

\* C8: in the decrypt action the session key is selected, parsed or used
\* only after the participant check has passed for a participant; a
\* rejected caller's request never holds the key.
C8_CheckBeforeKey ==
  \A i \in 1..Len(requests) :
    LET r == requests[i] IN
    r.action = "decrypt" =>
      /\ (r.conversation # Unread \/ r.sessionKey # <<>> \/ r.pc \in {"decrypt_select", "decrypt_cipher"})
           => (r.participant /\ r.user \in participants[r.conversationId])
      /\ r.status \in {401, 403}
           => (r.conversation = Unread /\ r.sessionKey = <<>> /\ r.plain = "")

C8_Witness ==
  \E i \in 1..Len(requests) :
    /\ requests[i].action = "decrypt"
    /\ requests[i].user = "u3"
    /\ requests[i].conversationId = 1
    /\ conversations[1] # <<>>
    /\ requests[i].status = 403
    /\ ~requests[i].fault
    /\ requests[i].conversation = Unread

\* ------------------------------------------------------------------------
\* Properties of the receive orchestrator (checked under SpecReceive)
\* ------------------------------------------------------------------------
Row(id) == CHOOSE m \in {messages_table[j] : j \in 1..Len(messages_table)} : m.id = id

\* C9: a message decrypted while no session key is unlocked gets the locked
\* placeholder, without a local and without a server-side decryption
\* attempt, and the locked placeholder differs from the failure placeholders.
C9_LockedPlaceholder ==
  /\ Locked \notin {FailedClient, FailedServer}
  /\ \A n \in 1..Len(decrypts) :
       (decrypts[n].key = "null" /\ decrypts[n].mounted)
         => /\ decrypts[n].local = "none"
            /\ decrypts[n].request = 0
            /\ ~decrypts[n].fault
            /\ decrypts[n].pc = "done"
            /\ decrypts[n].decrypted_content = Locked

\* C10: once a decryption with an unlocked session key has ended and its
\* local hybrid decryption threw, the service's decrypt was called for the
\* message, and a message the service can decrypt (no query or network
\* failure) is shown with its plaintext.
C10_ServerFallbackOnReceive ==
  \A n \in 1..Len(decrypts) :
    LET d == decrypts[n] IN
    (d.key # "null" /\ d.mounted /\ d.local = "threw" /\ d.pc = "done")
      => /\ d.request # 0 \/ d.fault
         /\ (~d.fault /\ ServerDecrypts(Row(d.id)))
              => d.decrypted_content = Row(d.id).content_encrypted.pt

\* ------------------------------------------------------------------------
\* Properties of the auth provider (checked under SpecAuth)
\* ------------------------------------------------------------------------
\* C19: the step that ends an unlockKeys call made with a password other
\* than the wrapping one returns false and changes neither sessionPrivateKey
\* nor isUnlockModalOpen; a call returns true only with the wrapping
\* password, and the only key ever installed is the user's private key.
C19_WrongPasswordInstallsNothing ==
  [][\A n \in 1..Len(unlocks) :
       (unlocks[n].password # storedKeys.encryptedPrivateKey.wrappedWith
          /\ unlocks[n].pc # "done" /\ unlocks'[n].pc = "done")
         => /\ unlocks'[n].result = "false"
            /\ sessionPrivateKey' = sessionPrivateKey
            /\ isUnlockModalOpen' = isUnlockModalOpen]_vars

C19_Witness ==
  /\ isUnlockModalOpen
  /\ sessionPrivateKey = "null"
  /\ \E n \in 1..Len(unlocks) :
       /\ unlocks[n].password = "wrong"
       /\ unlocks[n].pc = "done"
       /\ unlocks[n].result = "false"
       /\ unlocks[n].user = user

\* C20: whenever no user is signed in, sessionPrivateKey is null.
C20_NoKeyWhenSignedOut ==
  authUser = "null" => sessionPrivateKey = "null"

\* ------------------------------------------------------------------------
\* Liveness of the send orchestrator (checked under SpecLive)
\* ------------------------------------------------------------------------
\* C18: every sendMessage call eventually ends, returned or thrown, also
\* when a response of the network never arrives.
C18_SendAlwaysEnds ==
  (\E n \in 1..Len(sends) : ~Ended(sends[n]))
    ~> (\A n \in 1..Len(sends) : Ended(sends[n]))

\* ------------------------------------------------------------------------
\* Properties of batch decryption (checked under SpecBatch)
\* ------------------------------------------------------------------------
ServerFailed(d) == d.request = 0 \/ requests[d.request].status # 200

\* C11: no decryptSingleMessage call and no processBatchDecryption call ends
\* by throwing: a call whose local decryption did not succeed and whose
\* server-side decryption failed ends with the decryption-failed
\* placeholder, a batch whose local decryption of a message threw holds the
\* failure placeholder for it, and every batch that ended returned a list
\* with one entry per input message it processed.
C11_NoExceptionEscapes ==
  /\ \A n \in 1..Len(decrypts) :
       LET d == decrypts[n] IN
       /\ d.pc # "thrown"
       /\ (d.pc = "done" /\ d.mounted /\ d.local # "ok" /\ ServerFailed(d))
            => d.decrypted_content = FailedServer
  /\ \A n \in 1..Len(tasks) :
       LET t == tasks[n] IN
       t.kind = "batch" =>
         /\ t.returned # "threw"
         /\ t.pc = "done" =>
              /\ t.returned = "list"
              /\ Len(t.out) <= Len(t.data)
              /\ \A k \in 1..Len(t.out) : t.out[k].id = t.data[k].id
         /\ (t.pc = "done" /\ t.hook = "useMessageDecryption" /\ t.intact /\ t.key # "null")
              => \A k \in 1..Len(t.out) :
                   ~localDecryptOk(t.data[k], t.key)
                     => t.out[k].decrypted_content = FailedClient

C11_Witness ==
  \E n \in 1..Len(tasks) :
    LET t == tasks[n] IN
    /\ t.hook = "part_005"
    /\ t.pc = "done"
    /\ t.intact
    /\ Len(t.out) = 2
    /\ \E k \in 1..2 :
         /\ t.out[k].decrypted_content = FailedServer
         /\ decrypts[t.first + k].local = "threw"
         /\ decrypts[t.first + k].request # 0
         /\ requests[decrypts[t.first + k].request].status = 500
    /\ \E k \in 1..2 : t.out[k].decrypted_content = "hello"

Settled == mountedRef /\ tasks = <<>> /\ effectKey = sessionPrivateKey

\* C13: once the session is unlocked and everything the view started has
\* ended, no displayed message of the selected conversation still shows
\* the locked placeholder: every
\* message that was locked has been decrypted again with the key, also
\* when the unlock happened during a fetch or batch that started locked.
C13_NothingStaysLocked ==
  (Settled /\ sessionPrivateKey # "null" /\ selectedConversationId # 0)
    => \A k \in 1..Len(messages) :
         messages_table[messages[k].id].conversation_id = selectedConversationId
           => messages[k].decrypted_content # Locked

\* C14: the displayed list never holds two entries with the same message
\* id, however fetch completions and realtime INSERT notifications
\* interleave.
C14_NoDuplicateIds ==
  \A i \in 1..Len(messages) : \A j \in 1..Len(messages) :
    i # j => messages[i].id # messages[j].id

\* C15: whenever the displayed list is changed, it holds only messages of
\* the conversation that is selected then: nothing that was started for a
\* conversation writes the list after the view moved to another one.
C15_ShownBelongToSelected ==
  [][messages' # messages
       => \A k \in 1..Len(messages') :
            messages_table[messages'[k].id].conversation_id = selectedConversationId']_vars

\* C16: the client holds at most one realtime channel of the hook, the one
\* channelRef names, and it filters on the selected conversation; the
\* channel of the previous run is removed before the next one is created.
C16_OneChannel ==
  /\ Cardinality(channels) <= 1
  /\ \A ch \in channels : ch.n = channelRef /\ ch.conv = selectedConversationId
  /\ channelRef # 0 => \E ch \in channels : ch.n = channelRef

C16_Witness ==
  /\ selectedConversationId = 2
  /\ \E ch \in channels : ch.conv = 2 /\ ch.status = "SUBSCRIBED"
  /\ \E k \in 1..Len(tasks) : tasks[k].kind = "fetch" /\ tasks[k].conv = 1
  /\ effectKey # "null"

\* C17: the displayed list is in ascending order of creation (ids are
\* given in insertion order), whatever the order in which sends, realtime
\* handlers and fetches complete.
C17_ShownInCreationOrder ==
  \A i \in 1..Len(messages) : \A j \in 1..Len(messages) :
    i < j => messages[i].id < messages[j].id

\* ------------------------------------------------------------------------
\* Further properties of the send orchestrator (checked under Spec)
\* ------------------------------------------------------------------------
\* C30: a sendMessage call that ended by throwing stored no row in the
\* messages table, also when the view was unmounted between the insert and
\* the return.
C30_FailureMeansNoRow ==
  \A n \in 1..Len(sends) :
    sends[n].pc = "thrown"
      => ~\E j \in 1..Len(messages_table) :
            /\ messages_table[j].id = sends[n].messageData
            /\ messages_table[j].sender_id = user

\* ------------------------------------------------------------------------
\* Properties of key management (checked under SpecKeys)
\* ------------------------------------------------------------------------
\* C21: no retrieveStoredKeys / hasExistingKeys call is left with a promise
\* that nothing will settle, and a call that found no entry for the user
\* returned null (hasExistingKeys: false).
C21_AbsentIsNull ==
  \A n \in 1..Len(keyCalls) :
    LET call == keyCalls[n] IN
    call.kind \in {"retrieveStoredKeys", "hasExistingKeys"}
      => /\ call.pc # "unsettled"
         /\ (call.pc = "done" /\ call.absent)
              => call.result = IF call.kind = "hasExistingKeys" THEN "false" ELSE "null"

\* C22: no step of an ensurePublicKey run replaces a public key that is
\* published for the user.
C22_PublishedKeyKept ==
  [][\A n \in 1..Len(keyCalls) :
       (/\ keyCalls[n].kind = "ensurePublicKey"
        /\ keyCalls'[n] # keyCalls[n]
        /\ profiles[user] # "")
         => profiles'[user] = profiles[user]]_vars

\* C23: the error of a fetchPublicKey call that found no public key in the
\* profile differs from the error of a call whose query failed.
C23_NoKeyToldApart ==
  \A i \in 1..Len(keyCalls) : \A j \in 1..Len(keyCalls) :
    (/\ keyCalls[i].kind = "fetchPublicKey"
     /\ keyCalls[j].kind = "fetchPublicKey"
     /\ keyCalls[i].absent
     /\ keyCalls[j].result = "failed")
      => keyCalls[i].error # keyCalls[j].error

\* C29: whenever a public key is published for the user and no key
\* management call is under way, the local key store holds the wrapped
\* private key of the same pair.
C29_PublishedKeyHasPrivateKey ==
  (/\ profiles[user] # ""
   /\ \A n \in 1..Len(keyCalls) : keyCalls[n].pc \in {"done", "thrown", "rejected"})
    => /\ keyDb.store
       /\ keyDb.entry # 0
       /\ profiles[user] \in {spki(keyDb.entry), jwk(keyDb.entry)}


\* C27: a request that loaded a persisted session key used the hex decoding
\* of the value when the value is hex, the base64 decoding when it is not,
\* and was answered with a key format or length error when neither gives a
\* 32-byte key; so a key persisted in base64 is accepted and the placeholder
\* temp_key is never a key.
IsHex(value) == \A i \in 1..Len(value) : HexVal(value[i]) >= 0

Decoded(value) ==
  IF IsHex(value) /\ Len(value) % 2 = 0 THEN hexToUint8Array(value)
  ELSE IF atobOk(value) THEN base64ToUint8Array(value)
  ELSE <<>>

C27_StoredKeyDecoded ==
  \A i \in 1..Len(requests) :
    LET r == requests[i] IN
    (r.pc = "responded" /\ r.conversation \notin {Unread, <<>>} /\ r.status \in {200, 500}) =>
      IF Len(Decoded(r.conversation)) = KeyBytes
        THEN r.sessionKey = Decoded(r.conversation) /\ r.error # "Invalid key length"
        ELSE r.status = 500 /\ r.error = "Invalid key length"


\* C24: every successful encrypt request whose audit insert went through has
\* left exactly one audit record with its actor and its conversation (the
\* audit rows of a pair are as many as its audited encrypt responses), and a
\* request whose audit insert failed is still answered 200 with the
\* ciphertext and the iv.
AuditRows(actor, c) ==
  {j \in 1..Len(audit_logs) : audit_logs[j].user_id = actor
                              /\ audit_logs[j].conversation_id = c}

AuditedEncrypts(actor, c) ==
  {i \in 1..Len(requests) : /\ requests[i].action = "encrypt"
                            /\ requests[i].status = 200
                            /\ requests[i].audit = "written"
                            /\ requests[i].user = actor
                            /\ requests[i].conversationId = c}

C24_AuditBestEffort ==
  /\ \A actor \in Users, c \in DOMAIN conversations :
       Cardinality(AuditRows(actor, c)) = Cardinality(AuditedEncrypts(actor, c))
  /\ \A i \in 1..Len(requests) :
       requests[i].audit = "failed" =>
         /\ requests[i].status = 200
         /\ requests[i].result = encryptMessage(requests[i].message,
                                                requests[i].sessionKey).encrypted

C24_Witness ==
  \E i, j \in 1..Len(requests) :
    /\ requests[i].status = 200 /\ requests[i].audit = "failed"
    /\ requests[j].status = 200 /\ requests[j].audit = "written"
    /\ Len(audit_logs) = 1


\* C25: the input text changes only by the user's typing or, to the empty
\* text, in the step in which a call of handleSendMessage sees onSendMessage
\* resolved; the step in which a call sees onSendMessage throw leaves the
\* input text as it is (the text that was sent, in the revision that
\* disables the input while sending) and leaves the sending flag reset.
C25_FailedSendKeepsInput ==
  [][/\ chatMessages'.newMessage # chatMessages.newMessage =>
          \/ handleCalls' = handleCalls /\ sends' = sends
          \/ \E h \in 1..Len(handleCalls) :
               /\ handleCalls[h].pc = "awaiting" /\ handleCalls'[h].pc = "resolved"
               /\ sends[handleCalls[h].send].pc = "returned"
               /\ chatMessages'.newMessage = ""
     /\ \A h \in 1..Len(handleCalls) :
          (handleCalls[h].pc = "awaiting" /\ sends[handleCalls[h].send].pc = "thrown"
             /\ handleCalls'[h].pc # "awaiting") =>
            /\ chatMessages'.newMessage = chatMessages.newMessage
            /\ chatMessages.revision = "part_017" =>
                 chatMessages'.newMessage = handleCalls[h].content
            /\ ~chatMessages'.sending]_vars

C25_Witness ==
  \E h \in 1..Len(handleCalls) :
    /\ handleCalls[h].pc = "caught"
    /\ sends[handleCalls[h].send].pc = "thrown"
    /\ sends[handleCalls[h].send].inserts > 0
    /\ chatMessages.revision = "part_017"
    /\ chatMessages.newMessage = handleCalls[h].content
    /\ ~chatMessages.sending


\* C28: while the selected conversation stays the same, no step removes
\* from the displayed list a message that is persisted in that
\* conversation: a fetch or batch decryption of that conversation that
\* completes later keeps what realtime events and the user's own sends have
\* added meanwhile.
C28_DisplayedStays ==
  [][(/\ selectedConversationId' = selectedConversationId
      /\ \A k \in 1..Len(tasks) : tasks[k].conv = selectedConversationId) =>
       \A i \in 1..Len(messages) :
         (\E r \in 1..Len(messages_table) :
            /\ messages_table[r].id = messages[i].id
            /\ messages_table[r].conversation_id = selectedConversationId) =>
           \E j \in 1..Len(messages') : messages'[j].id = messages[i].id]_vars


\* C26: while a batch decryption of fetched messages runs, at most
\* batchSize of its message decryptions are in flight.
InFlight(t) ==
  {k \in 1..Len(t.data) : decrypts[t.first + k].pc \notin {"done", "thrown"}}

C26_AtMostBatchSizeInFlight ==
  \A n \in 1..Len(tasks) :
    (tasks[n].kind = "batch" /\ tasks[n].pc = "all") =>
      Cardinality(InFlight(tasks[n])) <= batchSize

====
